---------------------------- MODULE Spec2Model ----------------------------
(***************************************************************************)
(* Protocol translators of the agent gateway (backend/app/main.py).        *)
(*                                                                         *)
(*   SpecAgui    the AG-UI translator _agui_run_stream, folding over an    *)
(*               arbitrary sequence of internal agent events               *)
(*   SpecOpenAI  the OpenAI chat-completion translators stream_generator   *)
(*               and empty_stream_generator of copilotkit_invoke           *)
(*                                                                         *)
(* A translator is an async generator: it runs from one upstream pull to   *)
(* the next without interleaving, so each action below is the whole code   *)
(* path between two pulls, and the frames it yields are appended to the    *)
(* output stream in the order the code yields them.                        *)
(***************************************************************************)
EXTENDS Integers, Sequences, FiniteSets, Bags, TLC

\* ------------------------------------------------------------------ bounds
\* Number of upstream events a run consumes before the upstream must end
\* or raise.
MaxEvents == 4

\* ------------------------------------------------------------- input sets
\* Tool names and correlation keys the upstream may use.  NoKey is the
\* absent key: None and "" are both falsy in `if tool_call_key`.
ToolNames == {"a", "b"}
NoKey == ""
ToolKeys == {"k1", "k2"}
\* Texts carried by token / thinking events; "" is the empty string.
Texts == {"", "x"}
\* str(exc) of an exception raised by the upstream.
ErrTexts == {"boom"}
\* (thread_id, run_id) pairs of a request.
RunIdents == {<<"t1", "r1">>}
\* settings.openai_api_key: a key, or none ("").
ApiKeys == {"", "key"}

\* ------------------------------------------------- internal agent events
Ev(type, tool_name, tool_call_key, content) ==
    [type |-> type, tool_name |-> tool_name,
     tool_call_key |-> tool_call_key, content |-> content]

ThinkingKinds == {"thinking_start", "thinking", "thinking_end"}

\* The internal event taxonomy: every well-typed event the translator may be
\* handed by _stream_agent_events.
AgentEvents ==
    {Ev("thinking_start", "", NoKey, ""), Ev("thinking_end", "", NoKey, "")}
    \cup {Ev("thinking", "", NoKey, c) : c \in Texts}
    \cup {Ev("token", "", NoKey, c) : c \in Texts}
    \cup {Ev(t, n, k, "") : t \in {"tool_start", "tool_end"},
                            n \in ToolNames, k \in ToolKeys \cup {NoKey}}

\* ------------------------------------------------------------ wire frames
\* _agui_event(event_type, **kwargs): one AG-UI frame, a JSON object with
\* key "type" and the keyword arguments of the call site.
F(type) == [type |-> type]
FDelta(type, delta) == [type |-> type, delta |-> delta]
FMsgStart(messageId) ==
    [type |-> "TEXT_MESSAGE_START", messageId |-> messageId,
     role |-> "assistant"]
FMsgContent(messageId, delta) ==
    [type |-> "TEXT_MESSAGE_CONTENT", messageId |-> messageId, delta |-> delta]
FMsgEnd(messageId) == [type |-> "TEXT_MESSAGE_END", messageId |-> messageId]
FToolStart(toolCallId, toolName, messageId) ==
    [type |-> "TOOL_CALL_START", toolCallId |-> toolCallId,
     toolCallName |-> toolName, parentMessageId |-> messageId]
FTool(type, toolCallId) == [type |-> type, toolCallId |-> toolCallId]
FToolResult(toolCallId, toolName) ==
    [type |-> "TOOL_CALL_RESULT", toolCallId |-> toolCallId,
     role |-> "tool", toolName |-> toolName]
FRun(type, threadId, runId) ==
    [type |-> type, threadId |-> threadId, runId |-> runId]
FRunError(message) ==
    [type |-> "RUN_ERROR", message |-> message, code |-> "server_error"]

SyntheticDelta == "Analyzing your request and planning tool usage..."

VARIABLES
    \* ---- _agui_run_stream
    pc,                             \* "start", "loop", "finished", "error"
    thread_id, run_id, message_id,  \* identifiers of the run
    tool_counter,
    tool_call_ids_by_key,           \* key -> tool call id (0: key absent)
    pending_tool_call_ids_by_name,  \* name -> deque of tool call ids
    real_thinking_seen,
    synthetic_thinking_open,
    thinking_text_open,
    out,                            \* frames yielded so far
    steps,                          \* history: consumed events and the
                                    \* range of frames each produced
    \* ---- copilotkit_invoke, OpenAI dialect with stream: true
    latest_message,                 \* latest user message of the request
    oa_pc,                          \* "idle", "start", "streaming", "done",
                                    \* "failed", "propagated"
    oa_out,                         \* SSE payloads yielded so far
    oa_steps,                       \* history: upstream events consumed
    \* ---- ESPMCPToolkit (the server registry) and the /servers handlers
    servers,                        \* _servers: insertion-ordered dict, as
                                    \* the sequence of its values
    reg_log,                        \* history: calls made on the toolkit
    last_req,                       \* the last /servers request, its
                                    \* response and the registry before it
    \* ---- LocalNetworkDiscoveryToolkit.discover_mcp_servers
    scan_pc,                        \* "idle", "received", "scanning",
                                    \* "gathered", "returned", "rejected",
                                    \* "saved"
    scan_args,                      \* arguments of the call
    ports, hosts,                   \* parsed port list, enumerated hosts
    sem_value,                      \* free slots of the semaphore
    pool,                           \* scan_host tasks counted by position
    tasks,                          \* host -> state of its scan_host task
    discovered,                     \* positive hits, as gathered
    scan_result,                    \* returned dict, or the error raised
    reg_before,                     \* the registry when the call was made
    \* ---- AppSettings
    agent_fake_mode,                \* settings.agent_fake_mode
    openai_api_key,                 \* settings.openai_api_key ("": None)
    \* ---- the agent runtime (the compiled graph)
    graph_calls,                    \* calls of astream_events and ainvoke
    \* ---- POST /copilotkit
    ck_req,                         \* the payload being served
    ck_resp,                        \* what the handler returned or raised
    gone_at,                        \* frames the consumer of the AG-UI
                                    \* stream took before it went away
    oa_gone_at,                     \* the same for the OpenAI stream
    \* ---- ESPAgentService.stream_events / invoke
    ad_pc,                          \* "idle", "start", "streaming",
                                    \* "done", "config_error", "invoked"
    thinking_open,
    ad_out,                         \* events yielded so far
    ad_raw,                         \* runtime events consumed so far
    \* ---- react_agent_factory: the input sanitizer
    sn_cfg,                         \* InputSanitizerConfig of the graph
    sn_pc,                          \* "idle", "ready", "done"
    sn_in,                          \* state["messages"] given to the node
    sn_out,                         \* the messages the node returned
    \* ---- react_agent_factory: _thread_message_counts and its users
    cnt_table,                      \* _thread_message_counts
    cnt_written,                    \* history: thread -> the counts of the
                                    \* last sanitize step that stored any
    cnt_runs,                       \* run -> locals of sanitize_inputs_node
    cnt_read,                       \* a call of get_thread_message_counts
    \* ---- two concurrent calls of _agui_run_stream
    run_locals,                     \* run -> the locals of its generator
    run_out,                        \* run -> frames yielded so far
    run_events,                     \* run -> upstream events consumed
    \* ---- two concurrent calls of discover_mcp_servers with save set
    save_runs                       \* scan -> where its coroutine stands

aguiVars == <<pc, thread_id, run_id, message_id, tool_counter,
              tool_call_ids_by_key, pending_tool_call_ids_by_name,
              real_thinking_seen, synthetic_thinking_open,
              thinking_text_open, out, steps>>

oaVars == <<latest_message, oa_pc, oa_out, oa_steps>>

registryVars == <<servers, reg_log, last_req>>

scanVars == <<scan_pc, scan_args, ports, hosts, sem_value, tasks, pool,
              discovered, scan_result, reg_before>>

\* Everything outside the two protocol translators.
fleetVars == <<registryVars, scanVars, save_runs>>

settingsVars == <<agent_fake_mode, openai_api_key>>

gatewayVars == <<ck_req, ck_resp, gone_at, oa_gone_at>>

adapterVars == <<ad_pc, thinking_open, ad_out, ad_raw>>

sanitizeVars == <<sn_cfg, sn_pc, sn_in, sn_out>>

countVars == <<cnt_table, cnt_written, cnt_runs, cnt_read>>

runsVars == <<run_locals, run_out, run_events>>

\* The agent graph's sanitizer and the concurrent runs.
graphVars == <<sanitizeVars, countVars, runsVars>>

\* Settings, the endpoint and the agent service.
agentVars == <<settingsVars, gatewayVars, adapterVars, graphVars>>

vars == <<aguiVars, oaVars, fleetVars, agentVars, graph_calls>>

\* ------------------------------------------------- _stream_agent_events
\* RuntimeError raised by _ensure_api_key.
ConfigErrorText == "OPENAI_API_KEY is required to run the LangGraph agent"

\* Mutant of _ensure_api_key: it never raises.
EnsureApiKeyNever(key) == TRUE

\* _ensure_api_key: TRUE when it returns, FALSE when it raises.
EnsureApiKey(key) == key # ""

\* Names and keys of the tool calls of a run: those of the runtime and those
\* of the canned trace.
FakeToolName == "esp_fake_tool"
FakeToolKey == "fake_tool_call_1"
FakeThinking == "Checking available tools and preparing an execution plan..."
\* The keys of tool_call_ids_by_key and of pending_tool_call_ids_by_name.
RunToolKeys == ToolKeys \cup {FakeToolKey}
RunToolNames == ToolNames \cup {FakeToolName}

\* _fake_response_text(message).split(" "); the messages of the model hold
\* no blank, and ' stands for the backquote of the text.
FakeResponseWords(message) ==
    <<"Fake", "mode", "response\n\nYou", "said:">>
    \o (IF message = ""
        THEN <<"'(empty", "message)'\n\n'''text\ntool:">>
        ELSE <<"'" \o message \o "'\n\n'''text\ntool:">>)
    \o <<"esp_fake_tool\nstatus:", "ok\n'''">>

\* Mutant of the canned trace: the thinking events are left out.
FakeTraceNoThinking(message) ==
    <<Ev("tool_start", FakeToolName, FakeToolKey, ""),
      Ev("tool_end", FakeToolName, FakeToolKey, "")>>
    \o [i \in 1..Len(FakeResponseWords(message)) |->
           Ev("token", "", NoKey, FakeResponseWords(message)[i] \o " ")]

\* The events _stream_agent_events yields in fake mode (lines 158-187).
FakeTrace(message) ==
    <<Ev("thinking_start", "", NoKey, ""),
      Ev("thinking", "", NoKey, FakeThinking),
      Ev("thinking_end", "", NoKey, ""),
      Ev("tool_start", FakeToolName, FakeToolKey, ""),
      Ev("tool_end", FakeToolName, FakeToolKey, "")>>
    \o [i \in 1..Len(FakeResponseWords(message)) |->
           Ev("token", "", NoKey, FakeResponseWords(message)[i] \o " ")]

\* The events a pull of _stream_agent_events may hand over after `consumed`
\* events: the next one of the canned trace, or nothing when the credentials
\* are missing, or whatever the agent produces.
Upstream(consumed) ==
    IF agent_fake_mode
    THEN IF consumed < Len(FakeTrace(latest_message))
         THEN {FakeTrace(latest_message)[consumed + 1]} ELSE {}
    ELSE IF ~EnsureApiKey(openai_api_key) THEN {}
    ELSE IF consumed < MaxEvents THEN AgentEvents ELSE {}

\* The pull finds the upstream exhausted.
UpstreamEnds(consumed) ==
    IF agent_fake_mode THEN consumed = Len(FakeTrace(latest_message))
    ELSE EnsureApiKey(openai_api_key)

\* str(exc) of what the pull may raise.
UpstreamRaises(consumed) ==
    IF agent_fake_mode THEN {}
    ELSE IF ~EnsureApiKey(openai_api_key)
    THEN IF consumed = 0 THEN {ConfigErrorText} ELSE {}
    ELSE ErrTexts

\* service.stream_events runs up to astream_events on the first pull (lines
\* 189-193 of main.py, 295-302 of agent.py).
Pulled(consumed) ==
    graph_calls' = IF /\ ~agent_fake_mode
                      /\ EnsureApiKey(openai_api_key)
                      /\ consumed = 0
                   THEN graph_calls + 1 ELSE graph_calls

\* ------------------------------------------------------ sequence helpers
RECURSIVE RemoveFirst(_, _)
\* deque.remove(x): delete the first occurrence of x; ValueError (absent)
\* is swallowed by the caller.
RemoveFirst(s, x) ==
    IF s = <<>> THEN <<>>
    ELSE IF Head(s) = x THEN Tail(s)
    ELSE <<Head(s)>> \o RemoveFirst(Tail(s), x)


\* ------------------------------------------------ _agui_run_stream helpers
\* Mutant of _new_tool_call_id: the counter is advanced by the first
\* allocation only, so later identifiers embed the same number.
NewToolCallIdStale(counter) == IF counter = 0 THEN 1 ELSE counter

\* _new_tool_call_id: tool_counter += 1; the identifier is
\* f"tool_{tool_counter}_{uuid}", represented by the counter value it embeds.
NewToolCallId(counter) == counter + 1

\* Mutant of _emit_synthetic_thinking_start: the guard is inverted, so the
\* span is not opened at the start of a run.
EmitSyntheticThinkingStartInverted(sto, rts, tto) ==
    IF ~(sto \/ rts)
    THEN [frames |-> <<>>, synthetic_thinking_open |-> sto,
          thinking_text_open |-> tto]
    ELSE [frames |-> <<F("THINKING_START"),
                       F("THINKING_TEXT_MESSAGE_START"),
                       FDelta("THINKING_TEXT_MESSAGE_CONTENT", SyntheticDelta)>>,
          synthetic_thinking_open |-> TRUE,
          thinking_text_open |-> TRUE]

\* _emit_synthetic_thinking_start: the frames it yields and the flags it
\* leaves behind.
EmitSyntheticThinkingStart(sto, rts, tto) ==
    IF sto \/ rts
    THEN [frames |-> <<>>, synthetic_thinking_open |-> sto,
          thinking_text_open |-> tto]
    ELSE [frames |-> <<F("THINKING_START"),
                       F("THINKING_TEXT_MESSAGE_START"),
                       FDelta("THINKING_TEXT_MESSAGE_CONTENT", SyntheticDelta)>>,
          synthetic_thinking_open |-> TRUE,
          thinking_text_open |-> TRUE]

\* Mutant of _emit_thinking_end_if_open: the synthetic span's THINKING_END is
\* not emitted.
EmitThinkingEndTextOnly(tto, sto) ==
    IF tto THEN <<F("THINKING_TEXT_MESSAGE_END")>> ELSE <<>>

\* _emit_thinking_end_if_open: the frames it yields; afterwards both
\* thinking_text_open and synthetic_thinking_open are False.
EmitThinkingEndIfOpen(tto, sto) ==
    (IF tto THEN <<F("THINKING_TEXT_MESSAGE_END")>> ELSE <<>>)
    \o (IF sto THEN <<F("THINKING_END")>> ELSE <<>>)

\* The call sites of the token / tool branches and of the end of stream:
\* `if thinking_text_open or synthetic_thinking_open: _emit_thinking_end_if_open()`.
FlushThinking(tto, sto) ==
    IF tto \/ sto THEN EmitThinkingEndIfOpen(tto, sto) ELSE <<>>

\* Mutant of _resolve_or_create_tool_call_id: the keyed map is not looked up,
\* every tool_start allocates a fresh identifier.
ResolveOrCreateToolCallIdAlwaysNew(tool_name, key, counter, byKey, pending) ==
    LET id == NewToolCallId(counter) IN
    [id |-> id, is_new |-> TRUE, counter |-> id,
     byKey |-> IF key # NoKey THEN [byKey EXCEPT ![key] = id] ELSE byKey,
     pending |-> [pending EXCEPT ![tool_name] = Append(@, id)]]

\* _resolve_or_create_tool_call_id(tool_name, tool_call_key)
ResolveOrCreateToolCallId(tool_name, key, counter, byKey, pending) ==
    IF key # NoKey /\ byKey[key] # 0
    THEN [id |-> byKey[key], is_new |-> FALSE, counter |-> counter,
          byKey |-> byKey, pending |-> pending]
    ELSE LET id == NewToolCallId(counter) IN
         [id |-> id, is_new |-> TRUE, counter |-> id,
          byKey |-> IF key # NoKey THEN [byKey EXCEPT ![key] = id] ELSE byKey,
          pending |-> [pending EXCEPT ![tool_name] = Append(@, id)]]

\* Mutant of _consume_tool_call_id: the keyed map is not consulted, every
\* tool_end is resolved first-in-first-out by tool name.
ConsumeToolCallIdIgnoringKey(tool_name, key, counter, byKey, pending) ==
    IF pending[tool_name] # <<>>
    THEN [id |-> Head(pending[tool_name]), counter |-> counter,
          byKey |-> IF key # NoKey THEN [byKey EXCEPT ![key] = 0] ELSE byKey,
          pending |-> [pending EXCEPT ![tool_name] = Tail(@)]]
    ELSE [id |-> NewToolCallId(counter), counter |-> NewToolCallId(counter),
          byKey |-> byKey, pending |-> pending]

\* Mutant of _consume_tool_call_id: the per-name queue is popped at its
\* right end (pending.pop() for pending.popleft()).
ConsumeToolCallIdLifo(tool_name, key, counter, byKey, pending) ==
    IF key # NoKey /\ byKey[key] # 0
    THEN [id |-> byKey[key], counter |-> counter,
          byKey |-> [byKey EXCEPT ![key] = 0],
          pending |-> [pending EXCEPT
                         ![tool_name] = RemoveFirst(@, byKey[key])]]
    ELSE IF pending[tool_name] # <<>>
    THEN LET q == pending[tool_name] IN
         [id |-> q[Len(q)], counter |-> counter, byKey |-> byKey,
          pending |-> [pending EXCEPT ![tool_name] = SubSeq(q, 1, Len(q) - 1)]]
    ELSE [id |-> NewToolCallId(counter), counter |-> NewToolCallId(counter),
          byKey |-> byKey, pending |-> pending]

\* _consume_tool_call_id(tool_name, tool_call_key)
ConsumeToolCallId(tool_name, key, counter, byKey, pending) ==
    IF key # NoKey /\ byKey[key] # 0
    THEN [id |-> byKey[key], counter |-> counter,
          byKey |-> [byKey EXCEPT ![key] = 0],
          pending |-> [pending EXCEPT
                         ![tool_name] = RemoveFirst(@, byKey[key])]]
    ELSE IF pending[tool_name] # <<>>
    THEN [id |-> Head(pending[tool_name]), counter |-> counter,
          byKey |-> byKey,
          pending |-> [pending EXCEPT ![tool_name] = Tail(@)]]
    ELSE [id |-> NewToolCallId(counter), counter |-> NewToolCallId(counter),
          byKey |-> byKey, pending |-> pending]

\* ------------------------------------------------------------------- Init
\* No /servers request has been served: the registry is as constructed.
NoRequest == [method |-> "none"]
RegistryIdle ==
    /\ servers = <<>>
    /\ reg_log = <<>>
    /\ last_req = NoRequest

\* No scan has been requested.
NoArgs == [save |-> FALSE]
NoResult == [error |-> ""]
ScanIdle ==
    /\ scan_pc = "idle"
    /\ scan_args = NoArgs
    /\ ports = <<>> /\ hosts = <<>>
    /\ sem_value = 0
    /\ tasks = <<>>
    /\ pool = EmptyBag
    /\ discovered = <<>>
    /\ scan_result = NoResult
    /\ reg_before = <<>>

\* No pair of concurrent saving scans is being followed.
SavesIdle == save_runs = <<>>

\* Registry and discovery scanner untouched.
FleetIdle == RegistryIdle /\ ScanIdle /\ SavesIdle

\* No request has come to POST /copilotkit.
NoCkPayload == [kind |-> "none"]
\* The consumer of a stream has not gone away.
NotGone == [frames |-> -1, consumed |-> 0]
GatewayIdle ==
    /\ ck_req = NoCkPayload
    /\ ck_resp = NoCkPayload
    /\ gone_at = NotGone
    /\ oa_gone_at = NotGone

\* stream_events and invoke have not been called.
AdapterIdle ==
    /\ ad_pc = "idle"
    /\ thinking_open = FALSE
    /\ ad_out = <<>>
    /\ ad_raw = <<>>

\* The service as deployed with a model key and without fake mode; the agent
\* runtime has not been called.
Configured ==
    /\ agent_fake_mode = FALSE
    /\ openai_api_key = "key"
    /\ graph_calls = 0

\* InputSanitizerConfig(enabled, strategy, max_messages,
\* preserve_system_messages)
SanitizerConfig(enabled, strategy, max_messages, preserve) ==
    [enabled |-> enabled, strategy |-> strategy,
     max_messages |-> max_messages, preserve_system_messages |-> preserve]

\* The configuration _build_graph passes (agent.py 57-62).
ServiceSanitizer == SanitizerConfig(TRUE, "truncate", 24, TRUE)

\* The sanitizer node has not run.
SanitizeIdle ==
    /\ sn_cfg = ServiceSanitizer
    /\ sn_pc = "idle"
    /\ sn_in = <<>>
    /\ sn_out = <<>>

\* Thread identifiers of runs and of reads; "" is the empty identifier.
ThreadIds == {"t1", "t2"}
\* The runs that may be in their sanitize step at the same time.
CountRuns == {1, 2}
\* No entry of _thread_message_counts (dict.get returns None).
NoCounts == [raw_message_count |-> -1, sanitized_message_count |-> -1]
NoCountRun == [pc |-> "idle"]
NoCountRead == [pc |-> "idle"]

\* _thread_message_counts is empty and no run is in its sanitize step.
CountsIdle ==
    /\ cnt_table = [t \in ThreadIds |-> NoCounts]
    /\ cnt_written = [t \in ThreadIds |-> NoCounts]
    /\ cnt_runs = [r \in CountRuns |-> NoCountRun]
    /\ cnt_read = NoCountRead

\* No pair of concurrent AG-UI runs is being followed.
RunsIdle ==
    /\ run_locals = <<>>
    /\ run_out = <<>>
    /\ run_events = <<>>

GraphIdle == SanitizeIdle /\ CountsIdle /\ RunsIdle

\* The agent service at rest, behind an endpoint without requests.
AgentIdle == Configured /\ GatewayIdle /\ AdapterIdle /\ GraphIdle

\* No OpenAI-dialect request is being served.
OaIdle ==
    /\ latest_message = ""
    /\ oa_pc = "idle"
    /\ oa_out = <<>>
    /\ oa_steps = <<>>

InitAgui ==
    /\ OaIdle
    /\ FleetIdle
    /\ AgentIdle
    /\ pc = "start"
    /\ \E ids \in RunIdents : thread_id = ids[1] /\ run_id = ids[2]
    /\ message_id = "msg"
    /\ tool_counter = 0
    /\ tool_call_ids_by_key = [k \in RunToolKeys |-> 0]
    /\ pending_tool_call_ids_by_name = [n \in RunToolNames |-> <<>>]
    /\ real_thinking_seen = FALSE
    /\ synthetic_thinking_open = FALSE
    /\ thinking_text_open = FALSE
    /\ out = <<>>
    /\ steps = <<>>

unchangedIds == UNCHANGED <<thread_id, run_id, message_id>>
unchangedTools ==
    UNCHANGED <<tool_counter, tool_call_ids_by_key,
                pending_tool_call_ids_by_name>>

\* --------------------------------------------------------------- actions
\* Lines 300-324: RUN_STARTED, TEXT_MESSAGE_START, then (inside the try) the
\* synthetic thinking span, up to the first pull from the upstream.
AguiPrologue ==
    /\ pc = "start"
    /\ LET syn == EmitSyntheticThinkingStart(synthetic_thinking_open,
                      real_thinking_seen, thinking_text_open) IN
       /\ out' = out \o <<FRun("RUN_STARTED", thread_id, run_id),
                          FMsgStart(message_id)>>
                     \o syn.frames
       /\ synthetic_thinking_open' = syn.synthetic_thinking_open
       /\ thinking_text_open' = syn.thinking_text_open
    /\ pc' = "loop"
    /\ UNCHANGED <<real_thinking_seen, steps, graph_calls>>
    /\ unchangedIds /\ UNCHANGED <<oaVars, fleetVars, agentVars>> /\ unchangedTools

\* The upstream hands over event e, for which the translator yields frames.
Consume(e, frames) ==
    /\ Pulled(Len(steps))
    /\ out' = out \o frames
    /\ steps' = Append(steps, [ev |-> e, lo |-> Len(out) + 1,
                               hi |-> Len(out) + Len(frames)])

CanPull == pc = "loop" /\ Upstream(Len(steps)) # {}

\* Mutant of the common head: the synthetic span is left open when real
\* thinking arrives.
ThinkingHeadSkipped == <<>>

\* Lines 332-336: common head of the three thinking kinds.
ThinkingHead == IF synthetic_thinking_open
                THEN EmitThinkingEndIfOpen(thinking_text_open,
                                           synthetic_thinking_open)
                ELSE <<>>
\* Mutant of the thinking branch: the flag read after the head is the one
\* from before it.
TextOpenAfterHeadStale == thinking_text_open

TextOpenAfterHead == IF synthetic_thinking_open THEN FALSE
                     ELSE thinking_text_open

\* kind == "thinking_start" (lines 338-345)
AguiThinkingStart ==
    /\ CanPull
    /\ \E e \in Upstream(Len(steps)) :
        /\ e.type = "thinking_start"
        /\ Consume(e, ThinkingHead \o <<F("THINKING_START")>>
                      \o (IF ~TextOpenAfterHead
                          THEN <<F("THINKING_TEXT_MESSAGE_START")>>
                          ELSE <<>>))
    /\ real_thinking_seen' = TRUE
    /\ synthetic_thinking_open' = FALSE
    /\ thinking_text_open' = TRUE
    /\ UNCHANGED pc
    /\ unchangedIds /\ UNCHANGED <<oaVars, fleetVars, agentVars>> /\ unchangedTools

\* kind == "thinking" (lines 346-360)
AguiThinking ==
    /\ CanPull
    /\ \E e \in Upstream(Len(steps)) :
        /\ e.type = "thinking"
        /\ IF e.content # ""
           THEN /\ Consume(e, ThinkingHead
                      \o (IF ~TextOpenAfterHead
                          THEN <<F("THINKING_TEXT_MESSAGE_START")>>
                          ELSE <<>>)
                      \o <<FDelta("THINKING_TEXT_MESSAGE_CONTENT", e.content)>>)
                /\ thinking_text_open' = TRUE
           ELSE /\ Consume(e, ThinkingHead)
                /\ thinking_text_open' = TextOpenAfterHead
    /\ real_thinking_seen' = TRUE
    /\ synthetic_thinking_open' = FALSE
    /\ UNCHANGED pc
    /\ unchangedIds /\ UNCHANGED <<oaVars, fleetVars, agentVars>> /\ unchangedTools

\* kind == "thinking_end" (lines 361-365)
AguiThinkingEnd ==
    /\ CanPull
    /\ \E e \in Upstream(Len(steps)) :
        /\ e.type = "thinking_end"
        /\ Consume(e, ThinkingHead
                      \o (IF TextOpenAfterHead
                          THEN <<F("THINKING_TEXT_MESSAGE_END")>>
                          ELSE <<>>)
                      \o <<F("THINKING_END")>>)
    /\ real_thinking_seen' = TRUE
    /\ synthetic_thinking_open' = FALSE
    /\ thinking_text_open' = FALSE
    /\ UNCHANGED pc
    /\ unchangedIds /\ UNCHANGED <<oaVars, fleetVars, agentVars>> /\ unchangedTools

\* kind == "token" (lines 367-382)
AguiToken ==
    /\ CanPull
    /\ \E e \in Upstream(Len(steps)) :
        /\ e.type = "token"
        /\ Consume(e, FlushThinking(thinking_text_open, synthetic_thinking_open)
                      \o (IF e.content # ""
                          THEN <<FMsgContent(message_id, e.content)>>
                          ELSE <<>>))
    /\ synthetic_thinking_open' = FALSE
    /\ thinking_text_open' = FALSE
    /\ UNCHANGED <<pc, real_thinking_seen>>
    /\ unchangedIds /\ UNCHANGED <<oaVars, fleetVars, agentVars>> /\ unchangedTools

\* kind == "tool_start" (lines 383-417)
AguiToolStart ==
    /\ CanPull
    /\ \E e \in Upstream(Len(steps)) :
        /\ e.type = "tool_start"
        /\ LET r == ResolveOrCreateToolCallId(e.tool_name, e.tool_call_key,
                        tool_counter, tool_call_ids_by_key,
                        pending_tool_call_ids_by_name) IN
           /\ Consume(e, FlushThinking(thinking_text_open,
                                       synthetic_thinking_open)
                  \o (IF r.is_new
                      THEN <<FToolStart(r.id, e.tool_name, message_id)>>
                      ELSE <<>>)
                  \o <<FTool("TOOL_CALL_ARGS", r.id),
                       FTool("TOOL_CALL_END", r.id)>>)
           /\ tool_counter' = r.counter
           /\ tool_call_ids_by_key' = r.byKey
           /\ pending_tool_call_ids_by_name' = r.pending
    /\ synthetic_thinking_open' = FALSE
    /\ thinking_text_open' = FALSE
    /\ UNCHANGED <<pc, real_thinking_seen>>
    /\ unchangedIds /\ UNCHANGED <<oaVars, fleetVars, agentVars>>

\* kind == "tool_end" (lines 418-441)
AguiToolEnd ==
    /\ CanPull
    /\ \E e \in Upstream(Len(steps)) :
        /\ e.type = "tool_end"
        /\ LET r == ConsumeToolCallId(e.tool_name, e.tool_call_key,
                        tool_counter, tool_call_ids_by_key,
                        pending_tool_call_ids_by_name) IN
           /\ Consume(e, FlushThinking(thinking_text_open,
                                       synthetic_thinking_open)
                  \o <<FToolResult(r.id, e.tool_name)>>)
           /\ tool_counter' = r.counter
           /\ tool_call_ids_by_key' = r.byKey
           /\ pending_tool_call_ids_by_name' = r.pending
    /\ synthetic_thinking_open' = FALSE
    /\ thinking_text_open' = FALSE
    /\ UNCHANGED <<pc, real_thinking_seen>>
    /\ unchangedIds /\ UNCHANGED <<oaVars, fleetVars, agentVars>>

\* Mutant of the end of stream: RUN_FINISHED is yielded before
\* TEXT_MESSAGE_END.
EndOfStreamFramesSwapped(tto, sto, mid, tid, rid) ==
    FlushThinking(tto, sto)
    \o <<FRun("RUN_FINISHED", tid, rid), FMsgEnd(mid)>>

\* Mutant of the end of stream: the generator returns after
\* TEXT_MESSAGE_END, without RUN_FINISHED.
EndOfStreamFramesNoFinish(tto, sto, mid, tid, rid) ==
    FlushThinking(tto, sto) \o <<FMsgEnd(mid)>>

\* The frames of lines 443-456, yielded when the upstream is exhausted.
EndOfStreamFrames(tto, sto, mid, tid, rid) ==
    FlushThinking(tto, sto)
    \o <<FMsgEnd(mid), FRun("RUN_FINISHED", tid, rid)>>

\* The upstream ends (StopAsyncIteration): lines 443-456.
AguiStreamEnd ==
    /\ pc = "loop"
    /\ UpstreamEnds(Len(steps))
    /\ Pulled(Len(steps))
    /\ out' = out \o EndOfStreamFrames(thinking_text_open,
                         synthetic_thinking_open, message_id, thread_id, run_id)
    /\ synthetic_thinking_open' = FALSE
    /\ thinking_text_open' = FALSE
    /\ pc' = "finished"
    /\ UNCHANGED <<real_thinking_seen, steps>>
    /\ unchangedIds /\ UNCHANGED <<oaVars, fleetVars, agentVars>> /\ unchangedTools

\* Mutant of the except handler: the stream is wound up after RUN_ERROR as
\* at a normal end.
ErrorFramesThenEnd(msg) ==
    <<FRunError(msg), FMsgEnd("msg"), FRun("RUN_FINISHED", "t1", "r1")>>

\* The frames of the except Exception handler, lines 457-460.
ErrorFrames(msg) == <<FRunError(msg)>>

\* The upstream raises while being pulled: lines 457-460.
AguiUpstreamRaise ==
    /\ pc = "loop"
    /\ \E msg \in UpstreamRaises(Len(steps)) : out' = out \o ErrorFrames(msg)
    /\ Pulled(Len(steps))
    /\ pc' = "error"
    /\ UNCHANGED <<real_thinking_seen, synthetic_thinking_open,
                   thinking_text_open, steps>>
    /\ unchangedIds /\ UNCHANGED <<oaVars, fleetVars, agentVars>> /\ unchangedTools

NextAgui ==
    \/ AguiPrologue
    \/ AguiThinkingStart
    \/ AguiThinking
    \/ AguiThinkingEnd
    \/ AguiToken
    \/ AguiToolStart
    \/ AguiToolEnd
    \/ AguiStreamEnd
    \/ AguiUpstreamRaise

SpecAgui == InitAgui /\ [][NextAgui]_vars

\* The consumer keeps pulling and the event loop keeps resuming the
\* generator: a step of the translator that can be taken is taken.
SpecAguiFair == SpecAgui /\ WF_vars(NextAgui)

\* ====================================================================
\* copilotkit_invoke, OpenAI dialect, stream: true
\* ====================================================================
\* f"chatcmpl-{uuid4()}": stream_id / empty_id of the request.
ChatCmplId == "chatcmpl"
\* Requests carry a latest user message or none ("" and None are both falsy
\* in `if not latest_message`).
LatestMessages == {"", "hi"}
\* Classes of the exceptions the upstream raises (RuntimeError, httpx errors,
\* ...: subclasses of Exception).
UpstreamExcClasses == {"Exception"}

\* One chat.completion.chunk; delta is the set of its key/value pairs and
\* "null" stands for finish_reason None.
OaChunk(id, delta, finish_reason) ==
    [id |-> id, object |-> "chat.completion.chunk", index |-> 0,
     delta |-> delta, finish_reason |-> finish_reason]
OaRoleChunk(id) == OaChunk(id, {<<"role", "assistant">>}, "null")
OaContentChunk(id, token) == OaChunk(id, {<<"content", token>>}, "null")
OaStopChunk(id) == OaChunk(id, {}, "stop")
OaErrorChunk(msg) == [error |-> [message |-> msg, type |-> "server_error"]]
\* _sse("[DONE]"): the sentinel, not a JSON object.
OaDone == [literal |-> "[DONE]"]

\* No AG-UI run is being served.
AguiIdle ==
    /\ pc = "idle"
    /\ thread_id = "" /\ run_id = "" /\ message_id = ""
    /\ tool_counter = 0
    /\ tool_call_ids_by_key = [k \in RunToolKeys |-> 0]
    /\ pending_tool_call_ids_by_name = [n \in RunToolNames |-> <<>>]
    /\ real_thinking_seen = FALSE
    /\ synthetic_thinking_open = FALSE
    /\ thinking_text_open = FALSE
    /\ out = <<>>
    /\ steps = <<>>

InitOpenAI ==
    /\ AguiIdle
    /\ FleetIdle
    /\ AgentIdle
    /\ latest_message \in LatestMessages
    /\ oa_pc = "start"
    /\ oa_out = <<>>
    /\ oa_steps = <<>>

\* empty_stream_generator (lines 792-817): it pulls nothing from the agent.
OaEmptyStream ==
    /\ oa_pc = "start"
    /\ latest_message = ""
    /\ oa_out' = <<OaRoleChunk(ChatCmplId), OaStopChunk(ChatCmplId), OaDone>>
    /\ oa_pc' = "done"
    /\ UNCHANGED <<latest_message, oa_steps, graph_calls>>
    /\ UNCHANGED <<aguiVars, fleetVars, agentVars>>

\* stream_generator, lines 840-856: the role chunk, up to the first pull.
OaHeader ==
    /\ oa_pc = "start"
    /\ latest_message # ""
    /\ oa_out' = <<OaRoleChunk(ChatCmplId)>>
    /\ oa_pc' = "streaming"
    /\ UNCHANGED <<latest_message, oa_steps, graph_calls>>
    /\ UNCHANGED <<aguiVars, fleetVars, agentVars>>

\* Mutant of the loop body: thinking text is streamed like token text.
OaFramesForAnyText(e, id) ==
    IF e.type \notin {"token", "thinking"} THEN <<>>
    ELSE <<OaContentChunk(id, e.content)>>

\* Lines 862-881: what the loop body yields for event e.  The content of a
\* token event of the taxonomy is a string, so the isinstance test passes.
OaFramesFor(e, id) ==
    IF e.type # "token" THEN <<>> ELSE <<OaContentChunk(id, e.content)>>

OaCanPull == oa_pc = "streaming" /\ Upstream(Len(oa_steps)) # {}

\* A token event is pulled (lines 864-881).
OaToken ==
    /\ OaCanPull
    /\ Pulled(Len(oa_steps))
    /\ \E e \in Upstream(Len(oa_steps)) :
        /\ e.type = "token"
        /\ oa_out' = oa_out \o OaFramesFor(e, ChatCmplId)
        /\ oa_steps' = Append(oa_steps, e)
    /\ UNCHANGED <<latest_message, oa_pc>>
    /\ UNCHANGED <<aguiVars, fleetVars, agentVars>>

\* Any other event is pulled (lines 862-863: continue).
OaSkip ==
    /\ OaCanPull
    /\ Pulled(Len(oa_steps))
    /\ \E e \in Upstream(Len(oa_steps)) :
        /\ e.type # "token"
        /\ oa_out' = oa_out \o OaFramesFor(e, ChatCmplId)
        /\ oa_steps' = Append(oa_steps, e)
    /\ UNCHANGED <<latest_message, oa_pc>>
    /\ UNCHANGED <<aguiVars, fleetVars, agentVars>>

\* Lines 883-898, yielded when the upstream is exhausted.
OaEndFrames(id) == <<OaStopChunk(id), OaDone>>

OaStreamEnd ==
    /\ oa_pc = "streaming"
    /\ UpstreamEnds(Len(oa_steps))
    /\ Pulled(Len(oa_steps))
    /\ oa_out' = oa_out \o OaEndFrames(ChatCmplId)
    /\ oa_pc' = "done"
    /\ UNCHANGED <<latest_message, oa_steps>>
    /\ UNCHANGED <<aguiVars, fleetVars, agentVars>>

\* `except Exception` (line 899) catches the exceptions of class Exception
\* and of its subclasses.
OaHandles(cls) == cls = "Exception"

\* Mutant of the handler: the sentinel is not sent after the error chunk.
OaErrorFramesNoDone(msg) == <<OaErrorChunk(msg)>>

\* Lines 899-910: the handler's frames.
OaErrorFrames(msg) == <<OaErrorChunk(msg), OaDone>>

\* The upstream raises while being pulled.
OaUpstreamRaise ==
    /\ oa_pc = "streaming"
    /\ Pulled(Len(oa_steps))
    /\ \E cls \in UpstreamExcClasses, msg \in UpstreamRaises(Len(oa_steps)) :
        IF OaHandles(cls)
        THEN /\ oa_out' = oa_out \o OaErrorFrames(msg)
             /\ oa_pc' = "failed"
        ELSE /\ oa_out' = oa_out
             /\ oa_pc' = "propagated"
    /\ UNCHANGED <<latest_message, oa_steps>>
    /\ UNCHANGED <<aguiVars, fleetVars, agentVars>>

NextOpenAI ==
    \/ OaEmptyStream
    \/ OaHeader
    \/ OaToken
    \/ OaSkip
    \/ OaStreamEnd
    \/ OaUpstreamRaise

SpecOpenAI == InitOpenAI /\ [][NextOpenAI]_vars

\* ====================================================================
\* POST /copilotkit: copilotkit_invoke, with the streams it returns
\* ====================================================================
\* The values of the AG-UI envelope's method the handler knows.
CkMethods == {"info", "agent/stop", "agent/connect", "agent/run"}

\* JSON values of the payload's "method": a string, an object, null, or no
\* such key at all.
JsonString(v) == [json |-> "string", value |-> v]
JsonObject == [json |-> "object", value |-> ""]
JsonNull == [json |-> "null", value |-> ""]
JsonAbsent == [json |-> "absent", value |-> ""]
MethodValues ==
    {JsonString(m) : m \in CkMethods \cup {"agent/unknown"}}
    \cup {JsonObject, JsonNull, JsonAbsent}

\* The payloads of the model: the method, the stream flag of the OpenAI
\* dialect and the latest user message of the conversation.
CkPayloads ==
    {[kind |-> "payload", method |-> m, stream |-> st, message |-> msg] :
        m \in MethodValues, st \in BOOLEAN, msg \in LatestMessages}

\* _runtime_info() (lines 87-98)
RuntimeInfo ==
    [version |-> "0.1.0",
     agents |-> [default |-> [name |-> "default",
                              className |-> "ESPLangGraphAgent"]]]

\* What the handler comes to: a JSON body, a StreamingResponse over a
\* generator, or an exception with the status the client gets.
JsonResponse(body) == [kind |-> "json", status |-> 200, body |-> body]
StreamResponse(generator) ==
    [kind |-> "stream", status |-> 200, generator |-> generator]
Raised(exc, status) == [kind |-> "raised", status |-> status, exc |-> exc]

\* Mutant of AGUIEnvelope: method is declared Any.
EnvelopeValidatesAny(method) == TRUE

\* AGUIEnvelope.model_validate (lines 55-58, 721): method is declared str, and
\* a JSON object is not a str.
EnvelopeValidates(method) == method.json = "string"

\* payload.get("method") is not None (lines 719-720)
HasMethod(payload) == payload.method.json \notin {"absent", "null"}

\* The chat.completion body of the requests without stream (lines 823-834,
\* 924-935).
ChatCompletion(content) ==
    [object |-> "chat.completion", role |-> "assistant", content |-> content,
     finish_reason |-> "stop"]

\* The text of _fake_response_text(message)
FakeResponseText(message) == FakeResponseWords(message)

\* Requests are served by a service in fake mode or by one without model
\* credentials; the translators over a live agent are SpecAgui and
\* SpecOpenAI.
InitGateway ==
    /\ AguiIdle
    /\ OaIdle
    /\ FleetIdle
    /\ GatewayIdle
    /\ AdapterIdle
    /\ GraphIdle
    /\ agent_fake_mode \in BOOLEAN
    /\ openai_api_key \in ApiKeys
    /\ agent_fake_mode \/ ~EnsureApiKey(openai_api_key)
    /\ graph_calls = 0

\* agent/run (lines 756-778): the handler returns the generator
\* _agui_run_stream, whose locals are set when it starts (lines 228-234).
StartAguiRun(payload) ==
    /\ pc' = "start"
    /\ \E ids \in RunIdents : thread_id' = ids[1] /\ run_id' = ids[2]
    /\ message_id' = "msg"
    /\ latest_message' = payload.message
    /\ UNCHANGED <<tool_counter, tool_call_ids_by_key,
                   pending_tool_call_ids_by_name, real_thinking_seen,
                   synthetic_thinking_open, thinking_text_open, out, steps>>
    /\ UNCHANGED <<oa_pc, oa_out, oa_steps>>

\* stream: true (lines 788-821, 836-912): the handler returns
\* empty_stream_generator or stream_generator.
StartOaStream(payload) ==
    /\ oa_pc' = "start"
    /\ latest_message' = payload.message
    /\ UNCHANGED <<oa_out, oa_steps>>
    /\ UNCHANGED aguiVars

\* copilotkit_invoke (lines 717-935), up to what it returns or raises.
CopilotkitInvoke ==
    /\ ck_req = NoCkPayload
    /\ \E payload \in CkPayloads :
        /\ ck_req' = payload
        /\ IF HasMethod(payload)
           THEN IF ~EnvelopeValidates(payload.method)
                THEN /\ ck_resp' = Raised("ValidationError", 500)
                     /\ UNCHANGED <<aguiVars, oaVars, graph_calls>>
                ELSE IF payload.method.value = "info"
                THEN /\ ck_resp' = JsonResponse(RuntimeInfo)
                     /\ UNCHANGED <<aguiVars, oaVars, graph_calls>>
                ELSE IF payload.method.value = "agent/stop"
                THEN /\ ck_resp' = JsonResponse([ok |-> TRUE])
                     /\ UNCHANGED <<aguiVars, oaVars, graph_calls>>
                ELSE IF payload.method.value = "agent/connect"
                THEN /\ ck_resp' = StreamResponse("connect_stream")
                     /\ UNCHANGED <<aguiVars, oaVars, graph_calls>>
                ELSE IF payload.method.value = "agent/run"
                THEN /\ ck_resp' = StreamResponse("_agui_run_stream")
                     /\ StartAguiRun(payload)
                     /\ UNCHANGED graph_calls
                ELSE /\ ck_resp' = Raised("HTTPException", 400)
                     /\ UNCHANGED <<aguiVars, oaVars, graph_calls>>
           ELSE IF payload.stream
                THEN /\ ck_resp' = StreamResponse(
                            IF payload.message = ""
                            THEN "empty_stream_generator"
                            ELSE "stream_generator")
                     /\ StartOaStream(payload)
                     /\ UNCHANGED graph_calls
                ELSE IF payload.message = ""
                THEN /\ ck_resp' = JsonResponse(ChatCompletion(<<>>))
                     /\ UNCHANGED <<aguiVars, oaVars, graph_calls>>
                ELSE IF agent_fake_mode
                THEN /\ ck_resp' = JsonResponse(ChatCompletion(
                                       FakeResponseText(payload.message)))
                     /\ UNCHANGED <<aguiVars, oaVars, graph_calls>>
                ELSE IF ~EnsureApiKey(openai_api_key)
                THEN /\ ck_resp' = Raised("RuntimeError", 500)
                     /\ UNCHANGED <<aguiVars, oaVars, graph_calls>>
                ELSE /\ ck_resp' = JsonResponse(ChatCompletion(<<"answer">>))
                     /\ graph_calls' = graph_calls + 1
                     /\ UNCHANGED <<aguiVars, oaVars>>
    /\ UNCHANGED <<gone_at, oa_gone_at>>
    /\ UNCHANGED <<settingsVars, adapterVars, graphVars, fleetVars>>

\* What is raised inside a generator whose consumer has gone away: the task
\* that iterated it is cancelled, or the generator is closed.
DisconnectExcClasses == {"CancelledError", "GeneratorExit"}

\* Mutant of the handler of _agui_run_stream: except BaseException.
AguiHandlesBaseException(cls) == TRUE

\* `except Exception` (line 457): CancelledError and GeneratorExit derive
\* from BaseException and pass through it.
AguiHandles(cls) == cls = "Exception"

\* Position of the first frame of the block of frames yielded last.
BlockLo ==
    IF pc \in {"finished", "error"}
    THEN (IF steps = <<>> THEN 5 ELSE steps[Len(steps)].hi) + 1
    ELSE IF steps = <<>> THEN 1 ELSE steps[Len(steps)].lo

\* The consumer of the AG-UI stream goes away when it has taken k frames; the
\* generator is then suspended at the yield of frame k, inside its try, and
\* the frames after k were never yielded.
AguiDisconnect ==
    /\ pc \in {"loop", "finished", "error"}
    /\ gone_at = NotGone
    /\ \E k \in BlockLo..Len(out), cls \in DisconnectExcClasses :
        /\ pc = "loop" \/ k < Len(out)
        /\ gone_at' = [frames |-> k, consumed |-> Len(steps)]
        /\ IF AguiHandles(cls)
           THEN /\ out' = SubSeq(out, 1, k) \o ErrorFrames(cls)
                /\ pc' = "error"
           ELSE /\ out' = SubSeq(out, 1, k)
                /\ pc' = "closed"
    /\ UNCHANGED <<thread_id, run_id, message_id, tool_counter,
                   tool_call_ids_by_key, pending_tool_call_ids_by_name,
                   real_thinking_seen, synthetic_thinking_open,
                   thinking_text_open, steps>>
    /\ UNCHANGED <<oaVars, fleetVars, graph_calls>>
    /\ UNCHANGED <<settingsVars, adapterVars, graphVars, ck_req, ck_resp,
                   oa_gone_at>>

\* Position of the first frame of the block stream_generator or
\* empty_stream_generator yielded last: one frame while streaming, the two
\* closing frames, or the three frames of the empty stream.
OaBlockLo ==
    IF oa_pc = "streaming" THEN Len(oa_out)
    ELSE IF latest_message = "" THEN 1
    ELSE Len(oa_out) - 1

\* The same for stream_generator, whose try starts before its first yield
\* (lines 840-910); the frames of its handler and those of
\* empty_stream_generator are yielded outside any try.
OaDisconnect ==
    /\ oa_pc \in {"streaming", "done", "failed"}
    /\ oa_gone_at = NotGone
    /\ \E k \in OaBlockLo..Len(oa_out), cls \in DisconnectExcClasses :
        /\ oa_pc = "streaming" \/ k < Len(oa_out)
        /\ oa_gone_at' = [frames |-> k, consumed |-> Len(oa_steps)]
        /\ IF OaHandles(cls) /\ oa_pc = "streaming"
           THEN /\ oa_out' = SubSeq(oa_out, 1, k) \o OaErrorFrames(cls)
                /\ oa_pc' = "failed"
           ELSE /\ oa_out' = SubSeq(oa_out, 1, k)
                /\ oa_pc' = "closed"
    /\ UNCHANGED <<latest_message, oa_steps>>
    /\ UNCHANGED <<aguiVars, fleetVars, graph_calls>>
    /\ UNCHANGED <<settingsVars, adapterVars, graphVars, ck_req, ck_resp,
                   gone_at>>

NextGateway ==
    \/ CopilotkitInvoke
    \/ NextAgui
    \/ NextOpenAI
    \/ AguiDisconnect
    \/ OaDisconnect

SpecGateway == InitGateway /\ [][NextGateway]_vars

\* --------------------------------------------------------------------
\* Properties of POST /copilotkit
\* --------------------------------------------------------------------
\* The request was answered by the OpenAI-compatible code (lines 784-935).
OpenAIHandled ==
    \/ /\ ck_resp.kind = "stream"
       /\ ck_resp.generator \in {"empty_stream_generator", "stream_generator"}
    \/ /\ ck_resp.kind = "json"
       /\ ck_resp.body \in {ChatCompletion(<<>>),
                            ChatCompletion(FakeResponseText(ck_req.message)),
                            ChatCompletion(<<"answer">>)}
    \/ ck_resp = Raised("RuntimeError", 500)

\* No agent run was started by the request.
NoAgentRun ==
    /\ pc = "idle"
    /\ oa_pc = "idle"
    /\ steps = <<>>
    /\ oa_steps = <<>>
    /\ graph_calls = 0

\* C21: POST /copilotkit dispatches on the payload's method: info answers
\* with the runtime description that holds agents.default, agent/stop with an
\* acknowledgement, agent/connect with a stream, agent/run with the stream of
\* an agent run; any other method value is answered with HTTP 400; a payload
\* without method is served as an OpenAI-style request; and only agent/run
\* and the OpenAI-style request start an agent run.
C21_DispatchOnMethod ==
    ck_req # NoCkPayload =>
        LET m == ck_req.method IN
        IF m.json \in {"absent", "null"} THEN OpenAIHandled /\ pc = "idle"
        ELSE IF m = JsonString("info")
        THEN /\ ck_resp = JsonResponse(RuntimeInfo)
             /\ "default" \in DOMAIN ck_resp.body.agents
             /\ NoAgentRun
        ELSE IF m = JsonString("agent/stop")
        THEN ck_resp = JsonResponse([ok |-> TRUE]) /\ NoAgentRun
        ELSE IF m = JsonString("agent/connect")
        THEN ck_resp = StreamResponse("connect_stream") /\ NoAgentRun
        ELSE IF m = JsonString("agent/run")
        THEN /\ ck_resp = StreamResponse("_agui_run_stream")
             /\ pc # "idle"
             /\ oa_pc = "idle"
        ELSE ck_resp.status = 400 /\ NoAgentRun

\* The service has no model credentials and fake mode is off.
Unconfigured == ~agent_fake_mode /\ ~EnsureApiKey(openai_api_key)

\* C24: with the model credentials missing and fake mode off, a streaming
\* request fails with the configuration error before streaming starts: no
\* frame of the run is written before the error is raised, in either
\* dialect.
C24_NoFrameBeforeConfigurationError ==
    Unconfigured =>
        /\ pc = "error" => out = ErrorFrames(ConfigErrorText)
        /\ oa_pc = "failed" => oa_out = OaErrorFrames(ConfigErrorText)

\* The frame types of the AG-UI stream of a fake-mode run whose answer has n
\* words.
FakeStreamTypes(n) ==
    <<"RUN_STARTED", "TEXT_MESSAGE_START",
      "THINKING_START", "THINKING_TEXT_MESSAGE_START",
      "THINKING_TEXT_MESSAGE_CONTENT", "THINKING_TEXT_MESSAGE_END",
      "THINKING_END",
      "THINKING_START", "THINKING_TEXT_MESSAGE_START",
      "THINKING_TEXT_MESSAGE_CONTENT", "THINKING_TEXT_MESSAGE_END",
      "THINKING_END",
      "TOOL_CALL_START", "TOOL_CALL_ARGS", "TOOL_CALL_END",
      "TOOL_CALL_RESULT">>
    \o [i \in 1..n |-> "TEXT_MESSAGE_CONTENT"]
    \o <<"TEXT_MESSAGE_END", "RUN_FINISHED">>

\* C28: in fake mode the AG-UI stream is the translation of the canned
\* trace and the agent runtime is never called; the finished stream is, in
\* order, RUN_STARTED, TEXT_MESSAGE_START, the synthetic thinking span
\* closed, the real thinking span, TOOL_CALL_START, TOOL_CALL_ARGS,
\* TOOL_CALL_END and TOOL_CALL_RESULT with one toolCallId, at least one
\* TEXT_MESSAGE_CONTENT, TEXT_MESSAGE_END, RUN_FINISHED.
C28_FakeStreamIsCannedTrace ==
    (agent_fake_mode /\ pc # "idle") =>
        LET trace == FakeTrace(latest_message)
            n == Len(FakeResponseWords(latest_message)) IN
        /\ graph_calls = 0
        /\ pc # "error"
        /\ Len(steps) <= Len(trace)
        /\ \A i \in 1..Len(steps) : steps[i].ev = trace[i]
        /\ pc = "finished" =>
            /\ Len(steps) = Len(trace)
            /\ n >= 1
            /\ [p \in 1..Len(out) |-> out[p].type] = FakeStreamTypes(n)
            /\ \A p \in 14..16 : out[p].toolCallId = out[13].toolCallId
            /\ out[6] = F("THINKING_TEXT_MESSAGE_END")
            /\ out[5] = FDelta("THINKING_TEXT_MESSAGE_CONTENT", SyntheticDelta)
            /\ out[10] = FDelta("THINKING_TEXT_MESSAGE_CONTENT", FakeThinking)
            /\ \A i \in 1..n :
                  out[16 + i] = FMsgContent(message_id,
                                    FakeResponseWords(latest_message)[i] \o " ")

\* A fake-mode run has finished with its whole stream delivered.
C28_Witness ==
    /\ agent_fake_mode
    /\ ck_req # NoCkPayload
    /\ ck_req.method = JsonString("agent/run")
    /\ pc = "finished"
    /\ gone_at = NotGone
    /\ out[Len(out)].type = "RUN_FINISHED"
    /\ Len(out) = 18 + Len(FakeResponseWords(latest_message))

\* C25: once the consumer of a stream has gone away the stream yields no
\* further frame and pulls no further upstream event, and the closure is not
\* caught by the stream's error handler: no RUN_ERROR, error chunk or [DONE]
\* is produced for it.
C25_NothingAfterConsumerGone ==
    /\ gone_at # NotGone =>
        /\ pc = "closed"
        /\ Len(out) = gone_at.frames
        /\ Len(steps) = gone_at.consumed
        /\ \A p \in 1..Len(out) : out[p].type # "RUN_ERROR"
    /\ oa_gone_at # NotGone =>
        /\ oa_pc = "closed"
        /\ Len(oa_out) = oa_gone_at.frames
        /\ Len(oa_steps) = oa_gone_at.consumed
        /\ oa_out[Len(oa_out)] # OaDone
        /\ \A p \in 1..Len(oa_out), cls \in DisconnectExcClasses :
              oa_out[p] # OaErrorChunk(cls)
    /\ (gone_at # NotGone \/ oa_gone_at # NotGone) =>
        /\ ~CanPull
        /\ ~OaCanPull
        /\ graph_calls = 0

\* The consumer of an AG-UI stream left in the middle of a block of frames,
\* after upstream events had been translated.
C25_Witness ==
    /\ gone_at # NotGone
    /\ gone_at.consumed >= 4
    /\ gone_at.frames < steps[Len(steps)].hi
    /\ pc = "closed"

\* ====================================================================
\* ESPAgentService: stream_events and invoke over the LangGraph runtime
\* ====================================================================
\* Events of _graph.astream_events: a chat-model chunk that is an
\* AIMessageChunk with its thinking text and its text, a chunk of another
\* class, the start and the end of a tool, and any other event.
Raw(event, is_chunk, thinking, text, name, rid) ==
    [event |-> event, is_chunk |-> is_chunk, thinking |-> thinking,
     text |-> text, name |-> name, run_id |-> rid]
RawEvents ==
    {Raw("on_chat_model_stream", TRUE, th, tx, "", "") :
        th \in Texts, tx \in Texts}
    \cup {Raw("on_chat_model_stream", FALSE, "", "", "", "")}
    \cup {Raw("on_tool_start", FALSE, "", "", "a", "k1"),
          Raw("on_tool_start", FALSE, "", "", "", "")}
    \cup {Raw("on_tool_end", FALSE, "", "", "a", "k1"),
          Raw("on_tool_end", FALSE, "", "", "", "")}
    \cup {Raw("on_chain_start", FALSE, "", "", "", "")}

\* Longest sequence of runtime events of a run.
MaxRaw == 4

\* name or "tool" (lines 333, 342)
NameOrTool(name) == IF name = "" THEN "tool" ELSE name

\* Lines 327-329 and 321-323: the span is closed if it is open.
ThinkingEndIfOpen(open) ==
    IF open THEN <<Ev("thinking_end", "", NoKey, "")>> ELSE <<>>

\* Lines 307-324: what an AIMessageChunk yields, and the flag after it.
ChunkEvents(open, raw) ==
    (IF raw.thinking # ""
     THEN (IF ~open THEN <<Ev("thinking_start", "", NoKey, "")>> ELSE <<>>)
          \o <<Ev("thinking", "", NoKey, raw.thinking)>>
     ELSE <<>>)
    \o (IF raw.text # ""
        THEN ThinkingEndIfOpen(open \/ raw.thinking # "")
             \o <<Ev("token", "", NoKey, raw.text)>>
        ELSE <<>>)
ChunkOpen(open, raw) ==
    IF raw.text # "" THEN FALSE ELSE open \/ raw.thinking # ""

\* A run of stream_events or a call of invoke is about to start, on a
\* service with or without model credentials.
InitAdapter ==
    /\ AguiIdle
    /\ OaIdle
    /\ FleetIdle
    /\ GatewayIdle
    /\ GraphIdle
    /\ agent_fake_mode = FALSE
    /\ openai_api_key \in ApiKeys
    /\ graph_calls = 0
    /\ ad_pc = "start"
    /\ thinking_open = FALSE
    /\ ad_out = <<>>
    /\ ad_raw = <<>>

adapterRest ==
    <<aguiVars, oaVars, fleetVars, settingsVars, gatewayVars, graphVars>>

\* The generator is pulled for the first time (lines 295-302).
AdStart ==
    /\ ad_pc = "start"
    /\ IF EnsureApiKey(openai_api_key)
       THEN /\ ad_pc' = "streaming"
            /\ graph_calls' = graph_calls + 1
       ELSE /\ ad_pc' = "config_error"
            /\ UNCHANGED graph_calls
    /\ thinking_open' = FALSE
    /\ UNCHANGED <<ad_out, ad_raw>>
    /\ UNCHANGED adapterRest

\* invoke (lines 233-259)
AdInvoke ==
    /\ ad_pc = "start"
    /\ IF EnsureApiKey(openai_api_key)
       THEN /\ ad_pc' = "invoked"
            /\ graph_calls' = graph_calls + 1
       ELSE /\ ad_pc' = "config_error"
            /\ UNCHANGED graph_calls
    /\ UNCHANGED <<thinking_open, ad_out, ad_raw>>
    /\ UNCHANGED adapterRest

\* The runtime hands over one more event.
AdTake(raw, events) ==
    /\ ad_pc = "streaming"
    /\ Len(ad_raw) < MaxRaw
    /\ ad_raw' = Append(ad_raw, [raw |-> raw, lo |-> Len(ad_out) + 1,
                                 hi |-> Len(ad_out) + Len(events),
                                 open |-> thinking_open])
    /\ ad_out' = ad_out \o events
    /\ UNCHANGED <<ad_pc, graph_calls>>
    /\ UNCHANGED adapterRest

\* on_chat_model_stream (lines 307-324)
AdChatModelStream ==
    \E raw \in RawEvents :
        /\ raw.event = "on_chat_model_stream"
        /\ IF raw.is_chunk
           THEN /\ AdTake(raw, ChunkEvents(thinking_open, raw))
                /\ thinking_open' = ChunkOpen(thinking_open, raw)
           ELSE /\ AdTake(raw, <<>>)
                /\ UNCHANGED thinking_open

\* on_tool_start (lines 326-336)
AdToolStart ==
    \E raw \in RawEvents :
        /\ raw.event = "on_tool_start"
        /\ AdTake(raw, ThinkingEndIfOpen(thinking_open)
                       \o <<Ev("tool_start", NameOrTool(raw.name),
                               raw.run_id, "")>>)
        /\ thinking_open' = FALSE

\* on_tool_end (lines 338-345): the branch does not look at thinking_open.
ToolEndPrefix(open) == <<>>

AdToolEnd ==
    \E raw \in RawEvents :
        /\ raw.event = "on_tool_end"
        /\ AdTake(raw, ToolEndPrefix(thinking_open)
                       \o <<Ev("tool_end", NameOrTool(raw.name),
                               raw.run_id, "")>>)
        /\ UNCHANGED thinking_open

\* Any other event falls through the if/elif chain.
AdOther ==
    \E raw \in RawEvents :
        /\ raw.event \notin {"on_chat_model_stream", "on_tool_start",
                             "on_tool_end"}
        /\ AdTake(raw, <<>>)
        /\ UNCHANGED thinking_open

\* The runtime is exhausted (lines 347-348).
AdEnd ==
    /\ ad_pc = "streaming"
    /\ ad_out' = ad_out \o ThinkingEndIfOpen(thinking_open)
    /\ ad_pc' = "done"
    /\ UNCHANGED <<thinking_open, ad_raw, graph_calls>>
    /\ UNCHANGED adapterRest

\* The runtime raises: nothing in stream_events catches it.
AdGraphRaise ==
    /\ ad_pc = "streaming"
    /\ ad_pc' = "raised"
    /\ UNCHANGED <<thinking_open, ad_out, ad_raw, graph_calls>>
    /\ UNCHANGED adapterRest

NextAdapter ==
    \/ AdStart
    \/ AdInvoke
    \/ AdChatModelStream
    \/ AdToolStart
    \/ AdToolEnd
    \/ AdOther
    \/ AdEnd
    \/ AdGraphRaise

SpecAdapter == InitAdapter /\ [][NextAdapter]_vars

\* --------------------------------------------------------------------
\* Properties of the adapter
\* --------------------------------------------------------------------
\* A thinking span is open before the event at position p of the output.
RECURSIVE AdSpanOpenAt(_)
AdSpanOpenAt(p) ==
    IF p <= 1 THEN FALSE
    ELSE IF ad_out[p - 1].type = "thinking_start" THEN TRUE
    ELSE IF ad_out[p - 1].type = "thinking_end" THEN FALSE
    ELSE AdSpanOpenAt(p - 1)

NonThinking == {"token", "tool_start", "tool_end"}

\* C22: in the output of stream_events thinking_start and thinking_end
\* strictly alternate, every thinking event lies inside a span, a
\* thinking_start is emitted exactly when a thinking fragment arrives with no
\* span open, a span that is open is closed before the next token,
\* tool_start or tool_end and at the end of the stream, so no non-thinking
\* event is emitted while a span is open.
C22_ThinkingSpansWellFormed ==
    /\ \A p \in 1..Len(ad_out) :
        /\ ad_out[p].type = "thinking_start" => ~AdSpanOpenAt(p)
        /\ ad_out[p].type = "thinking_end" => AdSpanOpenAt(p)
        /\ ad_out[p].type = "thinking" => AdSpanOpenAt(p)
        /\ ad_out[p].type \in NonThinking => ~AdSpanOpenAt(p)
    /\ \A i \in 1..Len(ad_raw) :
        LET r == ad_raw[i] IN
        (r.raw.is_chunk /\ r.raw.thinking # "") =>
            (ad_out[r.lo].type = "thinking_start" <=> ~r.open)
    /\ ad_pc = "streaming" => (thinking_open <=> AdSpanOpenAt(Len(ad_out) + 1))
    /\ ad_pc = "done" => ~AdSpanOpenAt(Len(ad_out) + 1)

\* C23: without model credentials stream_events and invoke fail with the
\* configuration error before the runtime is called and before any event is
\* produced.
C23_ConfigurationErrorFirst ==
    /\ openai_api_key = "" =>
        /\ ad_pc \in {"start", "config_error"}
        /\ graph_calls = 0
        /\ ad_out = <<>>
        /\ ad_raw = <<>>
    /\ ad_pc = "config_error" =>
        /\ openai_api_key = ""
        /\ graph_calls = 0
        /\ ad_out = <<>>

\* The call failed on a service without a key.
C23_Witness ==
    /\ openai_api_key = ""
    /\ ad_pc = "config_error"
    /\ graph_calls = 0

\* ====================================================================
\* react_agent_factory: the input sanitizer
\* ====================================================================
\* Longest history given to the sanitizer, and largest max_messages.
MaxHistory == 3
MaxMessagesCfg == 3

\* A message of the history: its class and its place in the history; the
\* summary message is made by the sanitizer from the messages it replaces.
MsgTypes == {"system", "human"}
Msg(type, n) == [type |-> type, n |-> n, summary |-> <<>>]
Histories ==
    UNION {{[i \in 1..len |-> Msg(types[i], i)] :
               types \in [1..len -> MsgTypes]} : len \in 0..MaxHistory}
SanitizerConfigs ==
    {SanitizerConfig(en, st, mx, pr) :
        en \in BOOLEAN, st \in {"truncate", "summarize"},
        mx \in 0..MaxMessagesCfg, pr \in BOOLEAN}

IsSystemMessage(m) == m.type = "system"
NotSystemMessage(m) == m.type # "system"
Max2(a, b) == IF a >= b THEN a ELSE b

\* The slice s[-k:]: the last k elements, all of s when k is 0 or exceeds
\* len(s).
LastSlice(s, k) ==
    IF k = 0 \/ k >= Len(s) THEN s ELSE SubSeq(s, Len(s) - k + 1, Len(s))
\* The slice s[:-k] for k >= 1: all but the last k elements.
ButLastSlice(s, k) ==
    IF k >= Len(s) THEN <<>> ELSE SubSeq(s, 1, Len(s) - k)

\* _truncate_messages (lines 86-106)
TruncateMessages(messages, max_messages, preserve) ==
    IF Len(messages) <= max_messages THEN messages
    ELSE IF ~preserve THEN LastSlice(messages, max_messages)
    ELSE LET system_messages == SelectSeq(messages, IsSystemMessage)
             non_system_messages == SelectSeq(messages, NotSystemMessage) IN
         IF Len(system_messages) >= max_messages
         THEN LastSlice(system_messages, max_messages)
         ELSE system_messages
              \o LastSlice(non_system_messages,
                           max_messages - Len(system_messages))

\* Lines 129-151: the SystemMessage that stands for the older messages.
SummaryMessage(older) ==
    [type |-> "system", n |-> 0, summary |-> [i \in 1..Len(older) |-> older[i].n]]

\* keep_count = max(1, max_messages - 1) (line 118)
KeepCount(max_messages) == Max2(1, max_messages - 1)

\* _summarize_messages (lines 109-152)
SummarizeMessages(messages, max_messages, preserve) ==
    IF Len(messages) <= max_messages THEN messages
    ELSE LET keep_count == KeepCount(max_messages)
             recent0 == LastSlice(messages, keep_count)
             older == ButLastSlice(messages, keep_count)
             merged == SelectSeq(older, IsSystemMessage)
                       \o SelectSeq(recent0, NotSystemMessage)
             recent == IF ~preserve THEN recent0
                       ELSE IF Len(merged) > keep_count
                       THEN LastSlice(merged, keep_count)
                       ELSE merged IN
         <<SummaryMessage(older)>> \o recent

\* sanitize_inputs_node (lines 204-242): the messages it returns.
SanitizeInputs(cfg, messages) ==
    IF ~cfg.enabled \/ cfg.max_messages < 1 THEN messages
    ELSE IF cfg.strategy = "summarize"
    THEN SummarizeMessages(messages, cfg.max_messages,
                           cfg.preserve_system_messages)
    ELSE TruncateMessages(messages, cfg.max_messages,
                          cfg.preserve_system_messages)

sanitizeRest ==
    <<aguiVars, oaVars, fleetVars, settingsVars, gatewayVars, adapterVars,
      countVars, runsVars, graph_calls>>

\* A graph built with any sanitizer configuration is about to sanitize any
\* history.
InitSanitize ==
    /\ AguiIdle
    /\ OaIdle
    /\ FleetIdle
    /\ Configured
    /\ GatewayIdle
    /\ AdapterIdle
    /\ CountsIdle
    /\ RunsIdle
    /\ sn_cfg \in SanitizerConfigs
    /\ sn_pc = "ready"
    /\ sn_in \in Histories
    /\ sn_out = <<>>

\* The node runs on the state's messages.
SanitizeInputsNode ==
    /\ sn_pc = "ready"
    /\ sn_out' = SanitizeInputs(sn_cfg, sn_in)
    /\ sn_pc' = "done"
    /\ UNCHANGED <<sn_cfg, sn_in>>
    /\ UNCHANGED sanitizeRest

NextSanitize == SanitizeInputsNode

SpecSanitize == InitSanitize /\ [][NextSanitize]_vars

\* C27: for either strategy and every max_messages >= 1 the sanitized
\* history has at most max_messages messages, and a history of at most
\* max_messages messages is returned unchanged.
C27_SanitizedHistoryBounded ==
    (sn_pc = "done" /\ sn_cfg.enabled /\ sn_cfg.max_messages >= 1) =>
        /\ Len(sn_out) <= sn_cfg.max_messages
        /\ Len(sn_in) <= sn_cfg.max_messages => sn_out = sn_in

\* ====================================================================
\* react_agent_factory: _thread_message_counts
\* ====================================================================
\* state["thread_id"] of a run: a thread identifier, or "" (no usable
\* identifier, line 213).
RunThreadIds == ThreadIds \cup {""}

\* Sanitizer configurations of the graphs whose runs are followed: the two
\* strategies with max_messages 1, and a disabled sanitizer.
CountConfigs ==
    {c \in SanitizerConfigs :
        /\ c.preserve_system_messages
        /\ c.max_messages = 1
        /\ c.enabled \/ c.strategy = "truncate"}

\* Longest history of a run whose counts are followed.
MaxCountHistory == 2
CountHistories == {h \in Histories : Len(h) <= MaxCountHistory}

Counts(raw, sanitized) ==
    [raw_message_count |-> raw, sanitized_message_count |-> sanitized]

\* Mutant of the store: an existing entry is updated field by field and its
\* raw count is left as it was.
StoreCountsKeepingRaw(table, t, raw, sanitized) ==
    [table EXCEPT ![t] = IF @ = NoCounts THEN Counts(raw, sanitized)
                         ELSE Counts(@.raw_message_count, sanitized)]

\* _thread_message_counts[thread_id] = {...} (lines 218-222, 237-241): one
\* assignment of a new dict holding both counts.
StoreCounts(table, t, raw, sanitized) ==
    [table EXCEPT ![t] = Counts(raw, sanitized)]

\* _thread_message_counts.get(thread_id) (line 57)
GetCounts(table, t) == IF t \in DOMAIN table THEN table[t] ELSE NoCounts

\* Lines 58-66: the dict get_thread_message_counts returns.
CountsResult(counts) == IF counts = NoCounts THEN Counts(0, 0) ELSE counts

countRest ==
    <<aguiVars, oaVars, fleetVars, settingsVars, gatewayVars, adapterVars,
      sanitizeVars, runsVars, graph_calls>>

\* No run has sanitized anything; the graph has one of the configurations.
InitCounts ==
    /\ AguiIdle
    /\ OaIdle
    /\ FleetIdle
    /\ Configured
    /\ GatewayIdle
    /\ AdapterIdle
    /\ CountsIdle
    /\ RunsIdle
    /\ sn_cfg \in CountConfigs
    /\ sn_pc = "idle"
    /\ sn_in = <<>>
    /\ sn_out = <<>>

\* Run r enters sanitize_inputs_node (lines 204-236): it counts the
\* messages of its state and sanitizes them.
CountNodeCompute(r) ==
    /\ cnt_runs[r] = NoCountRun
    /\ \E t \in RunThreadIds, messages \in CountHistories :
        cnt_runs' = [cnt_runs EXCEPT ![r] =
            [pc |-> "computed", thread_id |-> t,
             raw_count |-> Len(messages),
             sanitized_count |-> Len(SanitizeInputs(sn_cfg, messages))]]
    /\ UNCHANGED <<cnt_table, cnt_written, cnt_read>>
    /\ UNCHANGED countRest

\* Run r stores its counts, if it has a thread identifier, and leaves the
\* node (lines 217-223, 236-242).
CountNodeStore(r) ==
    /\ cnt_runs[r] # NoCountRun
    /\ LET run == cnt_runs[r] IN
       IF run.thread_id # ""
       THEN /\ cnt_table' = StoreCounts(cnt_table, run.thread_id,
                                        run.raw_count, run.sanitized_count)
            /\ cnt_written' = [cnt_written EXCEPT ![run.thread_id] =
                                  Counts(run.raw_count, run.sanitized_count)]
       ELSE UNCHANGED <<cnt_table, cnt_written>>
    /\ cnt_runs' = [cnt_runs EXCEPT ![r] = NoCountRun]
    /\ UNCHANGED cnt_read
    /\ UNCHANGED countRest

\* get_thread_message_counts, line 57: the entry of the thread is fetched.
CountReadFetch ==
    /\ cnt_read = NoCountRead
    /\ \E t \in RunThreadIds :
        cnt_read' = [pc |-> "fetched", thread_id |-> t,
                     counts |-> GetCounts(cnt_table, t),
                     latest |-> GetCounts(cnt_written, t)]
    /\ UNCHANGED <<cnt_table, cnt_written, cnt_runs>>
    /\ UNCHANGED countRest

\* Lines 58-66: the result is built from the fetched entry.
CountReadReturn ==
    /\ cnt_read.pc = "fetched"
    /\ cnt_read' = [pc |-> "returned", thread_id |-> cnt_read.thread_id,
                    result |-> CountsResult(cnt_read.counts),
                    latest |-> cnt_read.latest]
    /\ UNCHANGED <<cnt_table, cnt_written, cnt_runs>>
    /\ UNCHANGED countRest

\* The caller has its answer; another read may follow.
CountReadDone ==
    /\ cnt_read.pc = "returned"
    /\ cnt_read' = NoCountRead
    /\ UNCHANGED <<cnt_table, cnt_written, cnt_runs>>
    /\ UNCHANGED countRest

NextCounts ==
    \/ \E r \in CountRuns : CountNodeCompute(r)
    \/ \E r \in CountRuns : CountNodeStore(r)
    \/ CountReadFetch
    \/ CountReadReturn
    \/ CountReadDone

SpecCounts == InitCounts /\ [][NextCounts]_vars

\* C30: a read of the message-count record of thread t returns zeros when
\* no sanitize step has stored counts for t, and otherwise the raw and the
\* sanitized count stored together by the latest such step for t: never a
\* raw count of one run with the sanitized count of another, never another
\* thread's counts, and always sanitized count <= raw count.
C30_ReadReturnsLatestPair ==
    /\ \A t \in ThreadIds : cnt_table[t] = cnt_written[t]
    /\ cnt_read.pc = "returned" =>
        /\ cnt_read.result =
              (IF cnt_read.latest = NoCounts THEN Counts(0, 0)
               ELSE cnt_read.latest)
        /\ cnt_read.result.sanitized_message_count
              <= cnt_read.result.raw_message_count
        /\ cnt_read.thread_id = "" => cnt_read.result = Counts(0, 0)

\* Two stores for one thread and one for the other were made, and a read of
\* the first thread returned a pair in which messages had been dropped.
C30_Witness ==
    /\ cnt_read.pc = "returned"
    /\ cnt_read.thread_id = "t1"
    /\ cnt_read.result.sanitized_message_count
          < cnt_read.result.raw_message_count
    /\ cnt_written["t2"] # NoCounts
    /\ cnt_written["t2"] # cnt_read.result
    /\ cnt_runs[1] # NoCountRun
    /\ cnt_runs[1].thread_id = "t1"
    /\ cnt_runs[1].raw_count # cnt_read.result.raw_message_count

\* ====================================================================
\* Two concurrent calls of _agui_run_stream
\* ====================================================================
TwoRuns == {1, 2}
\* Longest sequence of upstream events of each of the two runs.
MaxRunEvents == 2

\* Upstream events of the two runs: they open a thinking span, stream text,
\* and start and end calls of one tool with and without a correlation key.
TwoRunEvents ==
    {Ev("thinking_start", "", NoKey, ""),
     Ev("token", "", NoKey, "x"),
     Ev("tool_start", "a", "k1", ""),
     Ev("tool_start", "a", NoKey, ""),
     Ev("tool_end", "a", "k1", "")}

\* The locals of a call of _agui_run_stream (lines 222-234) as it starts:
\* message_id is made from a fresh uuid4.
NewRunLocals(tid, rid, mid) ==
    [pc |-> "start", thread_id |-> tid, run_id |-> rid, message_id |-> mid,
     tool_counter |-> 0,
     tool_call_ids_by_key |-> [k \in RunToolKeys |-> 0],
     pending_tool_call_ids_by_name |-> [n \in RunToolNames |-> <<>>],
     real_thinking_seen |-> FALSE,
     synthetic_thinking_open |-> FALSE,
     thinking_text_open |-> FALSE,
     raised |-> ""]

\* Lines 300-324 on locals L: the frames up to the first pull, and the locals
\* after them.
RunPrologue(L) ==
    LET syn == EmitSyntheticThinkingStart(L.synthetic_thinking_open,
                   L.real_thinking_seen, L.thinking_text_open) IN
    [frames |-> <<FRun("RUN_STARTED", L.thread_id, L.run_id),
                  FMsgStart(L.message_id)>> \o syn.frames,
     locals |-> [L EXCEPT !.pc = "loop",
                          !.synthetic_thinking_open = syn.synthetic_thinking_open,
                          !.thinking_text_open = syn.thinking_text_open]]

\* Lines 332-441 on locals L, with the tool counter, the correlation map and
\* the per-name queues taken from T: the frames for event e and the locals
\* after it.
RunEvent(L, T, e) ==
    IF e.type = "thinking_start"
    THEN LET head == IF L.synthetic_thinking_open
                     THEN EmitThinkingEndIfOpen(L.thinking_text_open,
                                                L.synthetic_thinking_open)
                     ELSE <<>>
             open == IF L.synthetic_thinking_open THEN FALSE
                     ELSE L.thinking_text_open IN
         [frames |-> head \o <<F("THINKING_START")>>
                     \o (IF ~open THEN <<F("THINKING_TEXT_MESSAGE_START")>>
                         ELSE <<>>),
          locals |-> [L EXCEPT !.real_thinking_seen = TRUE,
                               !.synthetic_thinking_open = FALSE,
                               !.thinking_text_open = TRUE]]
    ELSE IF e.type = "token"
    THEN [frames |-> FlushThinking(L.thinking_text_open,
                                   L.synthetic_thinking_open)
                     \o (IF e.content # ""
                         THEN <<FMsgContent(L.message_id, e.content)>>
                         ELSE <<>>),
          locals |-> [L EXCEPT !.synthetic_thinking_open = FALSE,
                               !.thinking_text_open = FALSE]]
    ELSE IF e.type = "tool_start"
    THEN LET r == ResolveOrCreateToolCallId(e.tool_name, e.tool_call_key,
                      T.tool_counter, T.tool_call_ids_by_key,
                      T.pending_tool_call_ids_by_name) IN
         [frames |-> FlushThinking(L.thinking_text_open,
                                   L.synthetic_thinking_open)
                     \o (IF r.is_new
                         THEN <<FToolStart(r.id, e.tool_name, L.message_id)>>
                         ELSE <<>>)
                     \o <<FTool("TOOL_CALL_ARGS", r.id),
                          FTool("TOOL_CALL_END", r.id)>>,
          locals |-> [L EXCEPT !.synthetic_thinking_open = FALSE,
                               !.thinking_text_open = FALSE,
                               !.tool_counter = r.counter,
                               !.tool_call_ids_by_key = r.byKey,
                               !.pending_tool_call_ids_by_name = r.pending]]
    ELSE LET r == ConsumeToolCallId(e.tool_name, e.tool_call_key,
                      T.tool_counter, T.tool_call_ids_by_key,
                      T.pending_tool_call_ids_by_name) IN
         [frames |-> FlushThinking(L.thinking_text_open,
                                   L.synthetic_thinking_open)
                     \o <<FToolResult(r.id, e.tool_name)>>,
          locals |-> [L EXCEPT !.synthetic_thinking_open = FALSE,
                               !.thinking_text_open = FALSE,
                               !.tool_counter = r.counter,
                               !.tool_call_ids_by_key = r.byKey,
                               !.pending_tool_call_ids_by_name = r.pending]]

\* Lines 443-456 on locals L.
RunEnd(L) ==
    [frames |-> EndOfStreamFrames(L.thinking_text_open,
                    L.synthetic_thinking_open, L.message_id, L.thread_id,
                    L.run_id),
     locals |-> [L EXCEPT !.pc = "finished",
                          !.synthetic_thinking_open = FALSE,
                          !.thinking_text_open = FALSE]]

\* Lines 457-460 on locals L.
RunRaise(L, msg) ==
    [frames |-> ErrorFrames(msg),
     locals |-> [L EXCEPT !.pc = "error", !.raised = msg]]

\* Mutant of the generator's closure: tool_counter, tool_call_ids_by_key and
\* pending_tool_call_ids_by_name are module-level, here those of run 1.
RunToolStateShared(r) == run_locals[1]

\* The tool counter, the correlation map and the per-name queues run r
\* reads: the locals of its own call (lines 229-231).
RunToolState(r) == run_locals[r]

twoRunsRest ==
    <<aguiVars, oaVars, fleetVars, settingsVars, gatewayVars, adapterVars,
      sanitizeVars, countVars, graph_calls>>

\* Two agent/run requests have been accepted, on one thread or on two.
InitTwoRuns ==
    /\ AguiIdle
    /\ OaIdle
    /\ FleetIdle
    /\ Configured
    /\ GatewayIdle
    /\ AdapterIdle
    /\ SanitizeIdle
    /\ CountsIdle
    /\ \E t \in ThreadIds :
        run_locals = [r \in TwoRuns |->
            IF r = 1 THEN NewRunLocals("t1", "r1", "msg1")
            ELSE NewRunLocals(t, "r2", "msg2")]
    /\ run_out = [r \in TwoRuns |-> <<>>]
    /\ run_events = [r \in TwoRuns |-> <<>>]

\* Run r yields the frames of a step and keeps the locals it leaves.
RunYield(r, step) ==
    /\ run_out' = [run_out EXCEPT ![r] = @ \o step.frames]
    /\ run_locals' = [run_locals EXCEPT ![r] = step.locals]

\* Run r runs up to its first pull.
TwoRunStart(r) ==
    /\ run_locals[r].pc = "start"
    /\ RunYield(r, RunPrologue(run_locals[r]))
    /\ UNCHANGED run_events
    /\ UNCHANGED twoRunsRest

\* Run r is handed an event by its upstream and translates it.
TwoRunEvent(r) ==
    /\ run_locals[r].pc = "loop"
    /\ Len(run_events[r]) < MaxRunEvents
    /\ \E e \in TwoRunEvents :
        /\ RunYield(r, RunEvent(run_locals[r], RunToolState(r), e))
        /\ run_events' = [run_events EXCEPT ![r] = Append(@, e)]
    /\ UNCHANGED twoRunsRest

\* The upstream of run r is exhausted.
TwoRunEnd(r) ==
    /\ run_locals[r].pc = "loop"
    /\ RunYield(r, RunEnd(run_locals[r]))
    /\ UNCHANGED run_events
    /\ UNCHANGED twoRunsRest

\* The upstream of run r raises.
TwoRunRaise(r) ==
    /\ run_locals[r].pc = "loop"
    /\ \E msg \in ErrTexts : RunYield(r, RunRaise(run_locals[r], msg))
    /\ UNCHANGED run_events
    /\ UNCHANGED twoRunsRest

NextTwoRuns ==
    \/ \E r \in TwoRuns : TwoRunStart(r)
    \/ \E r \in TwoRuns : TwoRunEvent(r)
    \/ \E r \in TwoRuns : TwoRunEnd(r)
    \/ \E r \in TwoRuns : TwoRunRaise(r)

SpecTwoRuns == InitTwoRuns /\ [][NextTwoRuns]_vars

\* --------------------------------------------------------------------
\* Properties of the two runs
\* --------------------------------------------------------------------
\* A run alone: the frames and the locals after the prologue and the first
\* n of the events, starting from fresh locals.
RECURSIVE AloneAfter(_, _, _)
AloneAfter(fresh, events, n) ==
    IF n = 0 THEN RunPrologue(fresh)
    ELSE LET before == CHOOSE b \in {AloneAfter(fresh, events, n - 1)} : TRUE
             step == RunEvent(before.locals, before.locals, events[n]) IN
         [frames |-> before.frames \o step.frames, locals |-> step.locals]

\* The frames a run with the identifiers of L emits alone on the events, up
\* to where L stands.
AloneFrames(L, events) ==
    LET fresh == NewRunLocals(L.thread_id, L.run_id, L.message_id) IN
    IF L.pc = "start" THEN <<>>
    ELSE LET a == AloneAfter(fresh, events, Len(events)) IN
         IF L.pc = "loop" THEN a.frames
         ELSE IF L.pc = "finished" THEN a.frames \o RunEnd(a.locals).frames
         ELSE a.frames \o RunRaise(a.locals, L.raised).frames

\* The identifiers frame f carries.
FrameIdsOwn(f, L) ==
    /\ "messageId" \in DOMAIN f => f.messageId = L.message_id
    /\ "parentMessageId" \in DOMAIN f => f.parentMessageId = L.message_id
    /\ "threadId" \in DOMAIN f => f.threadId = L.thread_id
    /\ "runId" \in DOMAIN f => f.runId = L.run_id
    /\ "toolCallId" \in DOMAIN f => f.toolCallId \in 1..L.tool_counter

MaxCalls == 5

\* Names, base URLs and transports a ServerUpsertRequest may carry.  A URL is
\* the sequence of its pieces, cut at "//" and ":".
ServerNames == {"s1", "s2"}
ServerUrls == {<<"http:", "//", "h1">>, <<"http:", "//", "h2">>}
Transports == {"mcp_jsonrpc", "esp32_rest"}

\* MCPServerConfig; mcp_path, timeout_seconds and auth_token are stored and
\* returned with the entry and play no part in any registry operation.
MCPServerConfig(name, base_url, transport) ==
    [name |-> name, base_url |-> base_url, transport |-> transport]

ServerUpsertRequests ==
    {MCPServerConfig(n, u, t) : n \in ServerNames, u \in ServerUrls,
                                t \in Transports}

\* The names of the dict's keys.
NamesOf(s) == {s[i].name : i \in 1..Len(s)}

\* Mutant of register_server: the config is added without looking for an
\* entry of the same name.
RegisterServerAppending(s, config) == Append(s, config)

\* register_server: self._servers[config.name] = config.  An existing key
\* keeps its position in the dict, a new key is added at the end.
RegisterServer(s, config) ==
    IF config.name \in NamesOf(s)
    THEN [i \in 1..Len(s) |-> IF s[i].name = config.name THEN config ELSE s[i]]
    ELSE Append(s, config)

\* Mutant of remove_server: the entry is looked up and left in the dict.
RemoveServerKeeping(s, server_name) ==
    [servers |-> s, removed |-> server_name \in NamesOf(s)]

\* remove_server: self._servers.pop(server_name, None) is not None.
RemoveServer(s, server_name) ==
    LET Other(c) == c.name # server_name IN
    [servers |-> SelectSeq(s, Other), removed |-> server_name \in NamesOf(s)]

\* list_servers: one dict per stored config, in the order of the dict.
ListServers(s) == s

\* Entries of the toolkit call log.
RegisterCall(config) ==
    [op |-> "register", name |-> config.name, config |-> config]
RemoveCall(server_name, removed) ==
    [op |-> "remove", name |-> server_name, result |-> removed]
ListCall(s) == [op |-> "list", result |-> ListServers(s)]

InitRegistry ==
    /\ AguiIdle
    /\ SavesIdle
    /\ OaIdle
    /\ AgentIdle
    /\ RegistryIdle
    /\ ScanIdle

CanServe == Len(reg_log) < MaxCalls

\* A request, its response and the registry as it was before the request.
Req(method, server_name, payload, status, body, before) ==
    [method |-> method, server_name |-> server_name, payload |-> payload,
     status |-> status, body |-> body, before |-> before]

NoPayload == [name |-> ""]

\* Mutant of the guard of update_server: every name is taken as registered.
IsRegisteredAlways(server_name, s) == TRUE

\* update_server, line 621: the path name is the name of a listed server.
IsRegistered(server_name, s) ==
    server_name \in NamesOf(ListServers(s))

\* GET /servers (lines 597-599)
ListServersRequest ==
    /\ CanServe
    /\ reg_log' = Append(reg_log, ListCall(servers))
    /\ last_req' = Req("GET", "", NoPayload, 200, ListServers(servers), servers)
    /\ UNCHANGED servers
    /\ UNCHANGED <<aguiVars, oaVars, scanVars, agentVars, graph_calls,
                   save_runs>>

\* POST /servers (lines 602-614)
AddServer ==
    /\ CanServe
    /\ \E payload \in ServerUpsertRequests :
        LET after == RegisterServer(servers, payload) IN
        /\ servers' = after
        /\ reg_log' = reg_log \o <<RegisterCall(payload), ListCall(after)>>
        /\ last_req' = Req("POST", "", payload, 200, ListServers(after),
                           servers)
    /\ UNCHANGED <<aguiVars, oaVars, scanVars, agentVars, graph_calls,
                   save_runs>>

\* PUT /servers/{server_name} (lines 617-637)
UpdateServer ==
    /\ CanServe
    /\ \E server_name \in ServerNames, payload \in ServerUpsertRequests :
        IF ~IsRegistered(server_name, servers)
        THEN /\ reg_log' = Append(reg_log, ListCall(servers))
             /\ last_req' = Req("PUT", server_name, payload, 404, <<>>,
                                servers)
             /\ UNCHANGED servers
        ELSE LET rm == RemoveServer(servers, server_name)
                 renamed == payload.name # server_name
                 mid == IF renamed THEN rm.servers ELSE servers
                 after == RegisterServer(mid, payload)
             IN /\ servers' = after
                /\ reg_log' = reg_log \o <<ListCall(servers)>>
                      \o (IF renamed
                          THEN <<RemoveCall(server_name, rm.removed)>>
                          ELSE <<>>)
                      \o <<RegisterCall(payload), ListCall(after)>>
                /\ last_req' = Req("PUT", server_name, payload, 200,
                                   ListServers(after), servers)
    /\ UNCHANGED <<aguiVars, oaVars, scanVars, agentVars, graph_calls,
                   save_runs>>

\* DELETE /servers/{server_name} (lines 662-667)
DeleteServer ==
    /\ CanServe
    /\ \E server_name \in ServerNames :
        LET rm == RemoveServer(servers, server_name) IN
        /\ servers' = rm.servers
        /\ IF ~rm.removed
           THEN /\ reg_log' = Append(reg_log,
                                     RemoveCall(server_name, rm.removed))
                /\ last_req' = Req("DELETE", server_name, NoPayload, 404,
                                   <<>>, servers)
           ELSE /\ reg_log' = reg_log
                      \o <<RemoveCall(server_name, rm.removed),
                           ListCall(rm.servers)>>
                /\ last_req' = Req("DELETE", server_name, NoPayload, 200,
                                   ListServers(rm.servers), servers)
    /\ UNCHANGED <<aguiVars, oaVars, scanVars, agentVars, graph_calls,
                   save_runs>>

NextRegistry ==
    \/ ListServersRequest
    \/ AddServer
    \/ UpdateServer
    \/ DeleteServer

SpecRegistry == InitRegistry /\ [][NextRegistry]_vars

\* ====================================================================
\* LocalNetworkDiscoveryToolkit: discover_mcp_servers
\* ====================================================================
\* _base_url(host, port): the URL as the sequence of its pieces.
BaseUrl(host, port) ==
    IF port = 80 THEN <<"http:", "//", host>>
    ELSE <<"http:", "//", host, ":", ToString(port)>>

\* A positive hit of a probe; mcp_path and timeout_seconds are the same in
\* every hit of a scan.
Hit(transport, base_url, latency_ms) ==
    [transport |-> transport, base_url |-> base_url,
     latency_ms |-> latency_ms]

\* (base_url, transport): the key of dedup and of existing_keys.
KeyOf(item) == <<item.base_url, item.transport>>

RECURSIVE Join(_)
\* The string made of the pieces.
Join(pieces) ==
    IF pieces = <<>> THEN "" ELSE Head(pieces) \o Join(Tail(pieces))

\* base_url.split('//')[-1].replace(':', '-')
Sanitized(base_url) ==
    LET cuts == {i \in 1..Len(base_url) : base_url[i] = "//"}
        from == IF cuts = {} THEN 1
                ELSE 1 + CHOOSE i \in cuts : \A j \in cuts : j <= i
        last == SubSeq(base_url, from, Len(base_url))
    IN [i \in 1..Len(last) |-> IF last[i] = ":" THEN "-" ELSE last[i]]

\* stem = f"{name_prefix}-{transport}-{...}" (line 164)
Stem(name_prefix, transport, base_url) ==
    name_prefix \o "-" \o transport \o "-" \o Join(Sanitized(base_url))

\* Mutant of the name loop: the stem is used as it is, taken or not.
FreeNameTakenFirst(stem, name, idx, existing_names) == stem

RECURSIVE FreeName(_, _, _, _)
\* Lines 165-169: while name in existing_names: name = f"{stem}-{idx}"; idx += 1
FreeName(stem, name, idx, existing_names) ==
    IF name \in existing_names
    THEN FreeName(stem, stem \o "-" \o ToString(idx), idx + 1, existing_names)
    ELSE name

\* Mutant of the dedup loop: a later hit of a key always replaces the earlier.
DedupInsertLast(dedup, item) ==
    IF \E i \in 1..Len(dedup) : KeyOf(dedup[i]) = KeyOf(item)
    THEN [i \in 1..Len(dedup) |->
             IF KeyOf(dedup[i]) = KeyOf(item) THEN item ELSE dedup[i]]
    ELSE Append(dedup, item)

\* One turn of the dedup loop (lines 244-253); dedup is the dict as the
\* sequence of its values.
DedupInsert(dedup, item) ==
    IF \E i \in 1..Len(dedup) : KeyOf(dedup[i]) = KeyOf(item)
    THEN [i \in 1..Len(dedup) |->
             IF /\ KeyOf(dedup[i]) = KeyOf(item)
                /\ item.latency_ms < dedup[i].latency_ms
             THEN item ELSE dedup[i]]
    ELSE Append(dedup, item)

RECURSIVE DedupLoop(_, _)
\* for item in discovered (line 244); each turn's dict is bound as a value.
DedupLoop(items, dedup) ==
    IF items = <<>> THEN dedup
    ELSE CHOOSE r \in {DedupLoop(Tail(items), d) :
                          d \in {DedupInsert(dedup, Head(items))}} : TRUE

\* final_discovered = list(dedup.values()) (lines 243-255)
Dedup(items) == DedupLoop(items, <<>>)

\* Mutant of the save loop: existing_keys is not consulted.
SaveOneAlways(acc, item, name_prefix) ==
    LET stem == Stem(name_prefix, item.transport, item.base_url)
        name == FreeName(stem, stem, 2, acc.names)
    IN [servers |-> RegisterServer(acc.servers,
                        MCPServerConfig(name, item.base_url, item.transport)),
        keys |-> acc.keys \cup {KeyOf(item)},
        names |-> acc.names \cup {name},
        saved |-> acc.saved + 1]

\* One turn of the loop of _register_discovered (lines 156-182).
SaveOne(acc, item, name_prefix) ==
    IF item.base_url = <<>> \/ item.transport = "" THEN acc
    ELSE IF KeyOf(item) \in acc.keys THEN acc
    ELSE LET stem == Stem(name_prefix, item.transport, item.base_url)
             name == FreeName(stem, stem, 2, acc.names)
         IN [servers |-> RegisterServer(acc.servers,
                             MCPServerConfig(name, item.base_url,
                                             item.transport)),
             keys |-> acc.keys \cup {KeyOf(item)},
             names |-> acc.names \cup {name},
             saved |-> acc.saved + 1]

RECURSIVE SaveLoop(_, _, _)
\* for item in discovered (line 156); each turn's state is bound as a value.
SaveLoop(items, acc, name_prefix) ==
    IF items = <<>> THEN acc
    ELSE CHOOSE r \in {SaveLoop(Tail(items), a, name_prefix) :
                          a \in {SaveOne(acc, Head(items), name_prefix)}} :
             TRUE

\* Mutant of _register_discovered: existing_names starts empty instead of
\* holding the names of the registry.
RegisterDiscoveredBlindNames(items, name_prefix, s) ==
    LET existing == ListServers(s) IN
    SaveLoop(items,
             [servers |-> s,
              keys |-> {KeyOf(existing[i]) : i \in 1..Len(existing)},
              names |-> {},
              saved |-> 0],
             name_prefix)

\* Mutant of _register_discovered: existing_keys starts empty instead of
\* holding the pairs of the registry.
RegisterDiscoveredBlindKeys(items, name_prefix, s) ==
    LET existing == ListServers(s) IN
    SaveLoop(items,
             [servers |-> s,
              keys |-> {},
              names |-> NamesOf(existing),
              saved |-> 0],
             name_prefix)

\* _register_discovered(discovered, name_prefix) on registry s: the registry
\* it leaves and the count it returns.
RegisterDiscovered(items, name_prefix, s) ==
    LET existing == ListServers(s) IN
    SaveLoop(items,
             [servers |-> s,
              keys |-> {KeyOf(existing[i]) : i \in 1..Len(existing)},
              names |-> NamesOf(existing),
              saved |-> 0],
             name_prefix)

\* The dict returned by discover_mcp_servers (lines 260-269).
ScanResult(hosts_scanned, scanned_ports, final_discovered, saved_count) ==
    [error |-> "", hosts_scanned |-> hosts_scanned, ports |-> scanned_ports,
     found_count |-> Len(final_discovered), saved_count |-> saved_count,
     servers |-> final_discovered]

RECURSIVE Batches(_)
\* [item for batch in batches for item in batch], batches in host order
\* (line 241).
Batches(hs) ==
    IF hs = <<>> THEN <<>> ELSE tasks[Head(hs)].found \o Batches(Tail(hs))

\* Lines 241-269, from the gathered hits to the return.
Finish ==
    \E items \in {IF scan_pc = "gathered" THEN discovered
                  ELSE Batches(hosts)} :
    \E final_discovered \in {Dedup(items)} :
    \E reg \in {IF scan_args.save
                THEN RegisterDiscovered(final_discovered,
                                        scan_args.name_prefix, servers)
                ELSE [servers |-> servers, saved |-> 0]} :
       /\ discovered' = items
       /\ servers' = reg.servers
       /\ scan_result' = ScanResult(Len(hosts), ports, final_discovered,
                                    reg.saved)
       /\ scan_pc' = "returned"

\* -------------------------------------- dedup and save on any list of hits
\* Number of hits in the list handed to the dedup loop.
MaxHits == 3

Latencies == {50, 120}
NamePrefixes == {"d"}
\* Two endpoints whose generated names have the same stem.
DiscUrls == {BaseUrl("h1", 8080), BaseUrl("h1-8080", 80)}
DiscHits ==
    {Hit(t, u, l) : t \in Transports, u \in DiscUrls, l \in Latencies}
HitLists == UNION {[1..n -> DiscHits] : n \in 0..MaxHits}

\* Registries the scan may find: up to two servers, registered by POST
\* /servers or by an earlier save, under a generated name or another one.
DiscNames ==
    <<"s1", Stem("d", "mcp_jsonrpc", BaseUrl("h1", 8080)),
      Stem("d", "mcp_jsonrpc", BaseUrl("h1", 8080)) \o "-2">>
DiscConfigs ==
    {[pos |-> i, config |-> MCPServerConfig(DiscNames[i], u, t)] :
        i \in 1..Len(DiscNames), u \in DiscUrls, t \in Transports}
DiscRegistries ==
    {<<>>} \cup {<<c.config>> : c \in DiscConfigs}
    \cup {<<p[1].config, p[2].config>> :
             p \in {q \in DiscConfigs \X DiscConfigs : q[1].pos < q[2].pos}}

InitDiscovery ==
    /\ AguiIdle
    /\ SavesIdle
    /\ OaIdle
    /\ AgentIdle
    /\ reg_log = <<>> /\ last_req = NoRequest
    /\ servers \in DiscRegistries
    /\ reg_before = servers
    /\ scan_pc = "gathered"
    /\ scan_args \in {[save |-> sv, name_prefix |-> np] :
                         sv \in BOOLEAN, np \in NamePrefixes}
    /\ ports = <<>> /\ hosts = <<>>
    /\ sem_value = 0
    /\ tasks = <<>>
    /\ pool = EmptyBag
    /\ discovered \in HitLists
    /\ scan_result = NoResult

\* Lines 243-269 applied to the list of hits.
DedupAndSave ==
    /\ scan_pc = "gathered"
    /\ Finish
    /\ UNCHANGED <<scan_args, ports, hosts, sem_value, tasks, pool,
                   reg_before>>
    /\ UNCHANGED <<reg_log, last_req>>
    /\ UNCHANGED <<aguiVars, oaVars, agentVars, graph_calls, save_runs>>

\* _register_discovered called on the list of hits as it is.
SaveAsGiven ==
    /\ scan_pc = "gathered"
    /\ LET reg == RegisterDiscovered(discovered, scan_args.name_prefix,
                                     servers) IN
       /\ servers' = reg.servers
       /\ scan_result' = [error |-> "", saved_count |-> reg.saved]
    /\ scan_pc' = "saved"
    /\ UNCHANGED <<scan_args, ports, hosts, sem_value, tasks, pool, discovered,
                   reg_before>>
    /\ UNCHANGED <<reg_log, last_req>>
    /\ UNCHANGED <<aguiVars, oaVars, agentVars, graph_calls, save_runs>>

NextDiscovery ==
    \/ DedupAndSave
    \/ SaveAsGiven

SpecDiscovery == InitDiscovery /\ [][NextDiscovery]_vars

\* ------------------------------------------------- the scan, with its probes
\* Number of (host, port) pairs a request may have scanned.
MaxEndpoints == 2

\* asyncio.Semaphore(32) (line 224)
SemaphoreSlots == 32

\* The pieces of ports_csv between its commas: blank, a number, or a word
\* that is not a number.
Blank == [kind |-> "blank", value |-> 0]
Word == [kind |-> "word", value |-> 0]
Num(n) == [kind |-> "int", value |-> n]

\* "", "x", "0", "70000,", "80", "8080,80", "80, ,80", "8080,x",
\* "8090,8080,80"
PortsCsvs ==
    {<<Blank>>, <<Word>>, <<Num(0)>>, <<Num(70000), Blank>>, <<Num(80)>>,
     <<Num(8080), Num(80)>>, <<Num(80), Blank, Num(80)>>,
     <<Num(8080), Word>>, <<Num(8090), Num(8080), Num(80)>>}
MaxHostsArgs == {-1, 0, 1, 2, 3}
\* network.hosts() of the selected subnet, in address order.
NetworkHosts == <<"h1", "h2">>
\* The registry at the time of the scan: one server, registered by hand.
ScanRegistries ==
    {<<MCPServerConfig("s1", BaseUrl("h1", 80), "mcp_jsonrpc")>>}

\* What a probe's HTTP request comes to.
ProbeResponses == {"hit", "negative", "5xx", "exception", "timeout"}
ScanLatencies == {50}

RECURSIVE SortedSeq(_)
\* sorted(set)
SortedSeq(set) ==
    IF set = {} THEN <<>>
    ELSE LET least == CHOOSE x \in set : \A y \in set : x <= y IN
         <<least>> \o SortedSeq(set \ {least})

\* Mutant of _parse_ports: the range check is left out.
ParsePortsAnyNumber(ports_csv) ==
    [raised |-> \E i \in 1..Len(ports_csv) : ports_csv[i].kind = "word",
     ports |-> SortedSeq({ports_csv[i].value :
                   i \in {j \in 1..Len(ports_csv) :
                             ports_csv[j].kind = "int"}})]

\* _parse_ports (lines 46-56): int(token) raises ValueError on a word.
ParsePorts(ports_csv) ==
    [raised |-> \E i \in 1..Len(ports_csv) : ports_csv[i].kind = "word",
     ports |-> SortedSeq({ports_csv[i].value :
                   i \in {j \in 1..Len(ports_csv) :
                             /\ ports_csv[j].kind = "int"
                             /\ 1 <= ports_csv[j].value
                             /\ ports_csv[j].value <= 65535}})]

\* Lines 218-222: the first max_hosts hosts of the subnet (max_hosts > 0).
EnumerateHosts(max_hosts) ==
    IF max_hosts <= 0 THEN <<>>
    ELSE SubSeq(NetworkHosts, 1,
                IF max_hosts < Len(NetworkHosts) THEN max_hosts
                ELSE Len(NetworkHosts))

\* None, returned by a probe that found nothing.
NoHit == [transport |-> ""]

\* Mutant of _probe_mcp_jsonrpc: the status code is not looked at.
ProbeMcpJsonrpcAnyStatus(host, port, response, latency_ms) ==
    IF response \in {"hit", "5xx"}
    THEN Hit("mcp_jsonrpc", BaseUrl(host, port), latency_ms)
    ELSE NoHit

\* _probe_mcp_jsonrpc (lines 64-100): None on status >= 500, on a body that
\* is not a JSON-RPC 2.0 object, and on any exception, a timeout included.
ProbeMcpJsonrpc(host, port, response, latency_ms) ==
    IF response = "hit"
    THEN Hit("mcp_jsonrpc", BaseUrl(host, port), latency_ms)
    ELSE NoHit

\* _probe_esp32_rest (lines 102-143): None on a status other than 200, on a
\* body without a known key, and on any exception, a timeout included.
ProbeEsp32Rest(host, port, response, latency_ms) ==
    IF response = "hit"
    THEN Hit("esp32_rest", BaseUrl(host, port), latency_ms)
    ELSE NoHit

\* A scan_host task: where it is, how many probes have returned, what each
\* came to, and its list found.
Task(pos, n, outcomes, found) ==
    [pos |-> pos, n |-> n, outcomes |-> outcomes, found |-> found]

\* The port and the probe the task is awaiting: for port in ports, first
\* _probe_mcp_jsonrpc, then _probe_esp32_rest.
PortAt(n) == ports[(n \div 2) + 1]
ProbeAt(n) == IF n % 2 = 0 THEN "mcp_jsonrpc" ELSE "esp32_rest"

\* The requests, valid or not, that scan at most MaxEndpoints pairs.
ScanRequests ==
    {r \in {[ports_csv |-> pc_, max_hosts |-> mh, save |-> sv,
             name_prefix |-> np] :
                pc_ \in PortsCsvs, mh \in MaxHostsArgs, sv \in BOOLEAN,
                np \in NamePrefixes} :
        Len(ParsePorts(r.ports_csv).ports) * Len(EnumerateHosts(r.max_hosts))
            <= MaxEndpoints}

InitScan ==
    /\ AguiIdle
    /\ SavesIdle
    /\ OaIdle
    /\ AgentIdle
    /\ reg_log = <<>> /\ last_req = NoRequest
    /\ servers \in ScanRegistries
    /\ reg_before = servers
    /\ scan_pc = "received"
    /\ scan_args \in ScanRequests
    /\ ports = <<>> /\ hosts = <<>>
    /\ sem_value = 0
    /\ tasks = <<>>
    /\ pool = EmptyBag
    /\ discovered = <<>>
    /\ scan_result = NoResult

unchangedByTasks ==
    /\ UNCHANGED <<scan_args, ports, hosts, discovered, scan_result,
                   reg_before, pool>>
    /\ UNCHANGED registryVars
    /\ UNCHANGED <<aguiVars, oaVars, agentVars, graph_calls, save_runs>>

\* Lines 210-224 and 239-240: validation, host enumeration, the semaphore,
\* and one scan_host task per host handed to gather.
ScanStart ==
    /\ scan_pc = "received"
    /\ LET parsed == ParsePorts(scan_args.ports_csv) IN
       IF parsed.raised \/ parsed.ports = <<>> \/ scan_args.max_hosts <= 0
       THEN /\ scan_result' = [error |-> "ValueError"]
            /\ scan_pc' = "rejected"
            /\ UNCHANGED <<ports, hosts, sem_value, tasks>>
       ELSE LET enumerated == EnumerateHosts(scan_args.max_hosts) IN
            /\ ports' = parsed.ports
            /\ hosts' = enumerated
            /\ sem_value' = SemaphoreSlots
            /\ tasks' = [h \in {enumerated[i] : i \in 1..Len(enumerated)}
                            |-> Task("created", 0, <<>>, <<>>)]
            /\ scan_pc' = "scanning"
            /\ UNCHANGED scan_result
    /\ UNCHANGED <<scan_args, discovered, reg_before, pool>>
    /\ UNCHANGED registryVars
    /\ UNCHANGED <<aguiVars, oaVars, agentVars, graph_calls, save_runs>>

\* Mutant of the semaphore: acquire never waits.
CanAcquireAlways(value) == TRUE

\* async with semaphore (line 228): acquire returns at once when the value
\* is positive and waits for a release otherwise.
CanAcquire(value) == value > 0

\* scan_host acquires the semaphore (line 228) and issues its first probe.
TaskEnter ==
    /\ scan_pc = "scanning"
    /\ CanAcquire(sem_value)
    /\ \E h \in DOMAIN tasks :
        /\ tasks[h].pos = "created"
        /\ tasks' = [tasks EXCEPT ![h].pos = "probing"]
    /\ sem_value' = sem_value - 1
    /\ UNCHANGED scan_pc
    /\ unchangedByTasks

\* The probe a task awaits returns (lines 229-236); the task issues its next
\* probe or, after the last one, leaves the semaphore and returns found.
ProbeReturns ==
    /\ scan_pc = "scanning"
    /\ \E h \in DOMAIN tasks, response \in ProbeResponses,
          latency_ms \in ScanLatencies :
        LET t == tasks[h]
            hit == IF ProbeAt(t.n) = "mcp_jsonrpc"
                   THEN ProbeMcpJsonrpc(h, PortAt(t.n), response, latency_ms)
                   ELSE ProbeEsp32Rest(h, PortAt(t.n), response, latency_ms)
            last == t.n + 1 = 2 * Len(ports)
        IN /\ t.pos = "probing"
           /\ tasks' = [tasks EXCEPT ![h] =
                  Task(IF last THEN "done" ELSE "probing", t.n + 1,
                       Append(t.outcomes, response),
                       IF hit # NoHit THEN Append(t.found, hit)
                       ELSE t.found)]
           /\ sem_value' = IF last THEN sem_value + 1 ELSE sem_value
    /\ UNCHANGED scan_pc
    /\ unchangedByTasks

\* gather returns when every task has returned (line 240); lines 241-269.
ScanGather ==
    /\ scan_pc = "scanning"
    /\ \A h \in DOMAIN tasks : tasks[h].pos = "done"
    /\ Finish
    /\ UNCHANGED <<scan_args, ports, hosts, sem_value, tasks, pool,
                   reg_before>>
    /\ UNCHANGED <<reg_log, last_req>>
    /\ UNCHANGED <<aguiVars, oaVars, agentVars, graph_calls, save_runs>>

NextScan ==
    \/ ScanStart
    \/ TaskEnter
    \/ ProbeReturns
    \/ ScanGather

SpecScan == InitScan /\ [][NextScan]_vars

\* Every probe returns by its timeout and the event loop runs every task that
\* can run.
SpecScanFair == SpecScan /\ WF_vars(NextScan)

\* --------------------------------- the semaphore, with more tasks than slots
\* The scan_host tasks of a scan of many hosts, counted by position: which
\* host a task scans and what its probes find make no difference to the
\* semaphore.
\* Most hosts in a scan.
MaxPoolHosts == 33
\* The ports of the scan: two probes for each host.
PoolPorts == <<80>>

\* hosts of a scan of n hosts
PoolHosts(n) == [i \in 1..n |-> "h" \o ToString(i)]

\* Positions of a scan_host task: created and not yet past line 228;
\* awaiting its probe number n inside the section; returned.
Created == [pos |-> "created", n |-> 0]
Probing(n) == [pos |-> "probing", n |-> n]
Done == [pos |-> "done", n |-> 0]

\* n tasks at position p
Copies(p, n) == IF n = 0 THEN EmptyBag ELSE [x \in {p} |-> n]

\* The state at line 239, when gather has created one task per host.
InitPool ==
    /\ AguiIdle
    /\ SavesIdle
    /\ OaIdle
    /\ AgentIdle
    /\ RegistryIdle
    /\ reg_before = <<>>
    /\ scan_pc = "scanning"
    /\ scan_args = NoArgs
    /\ ports = PoolPorts
    /\ \E n \in 1..MaxPoolHosts : /\ hosts = PoolHosts(n)
                                  /\ pool = Copies(Created, n)
    /\ sem_value = SemaphoreSlots
    /\ tasks = <<>>
    /\ discovered = <<>>
    /\ scan_result = NoResult

unchangedByPool ==
    /\ UNCHANGED <<scan_pc, scan_args, ports, hosts, tasks, discovered,
                   scan_result, reg_before>>
    /\ UNCHANGED registryVars
    /\ UNCHANGED <<aguiVars, oaVars, agentVars, graph_calls, save_runs>>

\* A task acquires the semaphore (line 228) and issues its first probe.
PoolEnter ==
    /\ scan_pc = "scanning"
    /\ CanAcquire(sem_value)
    /\ BagIn(Created, pool)
    /\ pool' = (pool (-) Copies(Created, 1)) (+) Copies(Probing(0), 1)
    /\ sem_value' = sem_value - 1
    /\ unchangedByPool

\* The probe a task awaits returns (lines 229-236): the task issues its next
\* probe or, after the last one, releases the semaphore and returns.
PoolProbeReturns ==
    /\ scan_pc = "scanning"
    /\ \E n \in 0..(2 * Len(ports) - 1) :
        LET last == n + 1 = 2 * Len(ports) IN
        /\ BagIn(Probing(n), pool)
        /\ pool' = (pool (-) Copies(Probing(n), 1))
                       (+) Copies(IF last THEN Done ELSE Probing(n + 1), 1)
        /\ sem_value' = IF last THEN sem_value + 1 ELSE sem_value
    /\ unchangedByPool

NextPool ==
    \/ PoolEnter
    \/ PoolProbeReturns

SpecPool == InitPool /\ [][NextPool]_vars

\* Every probe returns by its timeout and the event loop runs every task that
\* can run.
SpecPoolFair == SpecPool /\ WF_vars(NextPool)


\* ====================================================================
\* Properties of the AG-UI translator
\* ====================================================================
\* Frames the translator yielded while handling the i-th consumed event.
FramesOf(i) == SubSeq(out, steps[i].lo, steps[i].hi)

\* Positions of the frames of the given type among out[lo..hi].
PosOfType(lo, hi, type) == {p \in lo..hi : out[p].type = type}

\* The identifier carried by the (single) frame of that type yielded for the
\* i-th event; 0 when the event yielded no such frame.
IdOfStep(i, type) ==
    LET ps == PosOfType(steps[i].lo, steps[i].hi, type) IN
    IF ps = {} THEN 0 ELSE out[CHOOSE p \in ps : TRUE].toolCallId

IsKeyed(i, type, key) ==
    /\ steps[i].ev.type = type
    /\ steps[i].ev.tool_call_key = key

\* The keyed tool_start at step i is still outstanding just before step j.
OutstandingAt(i, j, key) ==
    /\ i < j
    /\ IsKeyed(i, "tool_start", key)
    /\ \A m \in (i + 1)..(j - 1) : ~IsKeyed(m, "tool_end", key)

\* Upstream invariant of the data model: a correlation key never has two
\* outstanding tool_starts.
AtMostOneOutstandingStartPerKey ==
    \A j \in 1..Len(steps) :
        (steps[j].ev.type = "tool_start" /\ steps[j].ev.tool_call_key # NoKey)
            => \A i \in 1..(j - 1) :
                   ~OutstandingAt(i, j, steps[j].ev.tool_call_key)

\* steps and out only ever grow at their ends, and every prefix of a run is a
\* reachable state of its own: a property of the event consumed last, checked
\* in every reachable state, is a property of every event of every run.
Last == Len(steps)

\* C1: when no correlation key ever has two outstanding tool_starts, the
\* TOOL_CALL_RESULT of a keyed tool_end carries the toolCallId announced by
\* the TOOL_CALL_START of the outstanding tool_start with the same key, and
\* tool_starts with different keys are announced with different identifiers
\* (start A, start B, end B, end A: two identifiers, each result paired with
\* its own start).
C1_KeyedResultMatchesStart ==
    (Last > 0 /\ steps[Last].ev.tool_call_key # NoKey
       /\ AtMostOneOutstandingStartPerKey) =>
        LET k == steps[Last].ev.tool_call_key IN
        /\ IsKeyed(Last, "tool_end", k) =>
              \A i \in 1..(Last - 1) :
                  OutstandingAt(i, Last, k) =>
                      /\ IdOfStep(i, "TOOL_CALL_START") # 0
                      /\ IdOfStep(Last, "TOOL_CALL_RESULT")
                             = IdOfStep(i, "TOOL_CALL_START")
        /\ IsKeyed(Last, "tool_start", k) =>
              /\ IdOfStep(Last, "TOOL_CALL_START") # 0
              /\ \A i \in 1..(Last - 1) :
                    (/\ steps[i].ev.type = "tool_start"
                     /\ steps[i].ev.tool_call_key \notin {NoKey, k}) =>
                        IdOfStep(i, "TOOL_CALL_START")
                            # IdOfStep(Last, "TOOL_CALL_START")

\* Witness of C1: start k1, start k2, end k2, end k1 on one tool name, each
\* result carrying the identifier of its own start.
C1_Witness ==
    /\ Len(steps) = 4
    /\ \A i \in 1..4 : steps[i].ev.tool_name = "a"
    /\ IsKeyed(1, "tool_start", "k1") /\ IsKeyed(2, "tool_start", "k2")
    /\ IsKeyed(3, "tool_end", "k2") /\ IsKeyed(4, "tool_end", "k1")
    /\ IdOfStep(4, "TOOL_CALL_RESULT") = IdOfStep(1, "TOOL_CALL_START")
    /\ IdOfStep(3, "TOOL_CALL_RESULT") = IdOfStep(2, "TOOL_CALL_START")
    /\ IdOfStep(1, "TOOL_CALL_START") # IdOfStep(2, "TOOL_CALL_START")


\* The TOOL_CALL_START frames for tool name n yielded before position p whose
\* identifier no TOOL_CALL_RESULT before p carries, in stream order.
UnresolvedStarts(p, n) ==
    LET resolved == {out[q].toolCallId :
                        q \in {r \in 1..(p - 1) :
                                  out[r].type = "TOOL_CALL_RESULT"}}
        Unresolved(f) == /\ f.type = "TOOL_CALL_START"
                         /\ f.toolCallName = n
                         /\ f.toolCallId \notin resolved
    IN SelectSeq(SubSeq(out, 1, p - 1), Unresolved)

AllKeyless == \A i \in 1..Len(steps) : steps[i].ev.tool_call_key = NoKey

\* C2: while the tool events of a run carry no correlation key, a tool_end is
\* resolved first-in-first-out per tool name: its TOOL_CALL_RESULT carries
\* the identifier of the earliest TOOL_CALL_START for that name that no
\* earlier TOOL_CALL_RESULT has resolved.
C2_KeylessFifoByName ==
    (Last > 0 /\ steps[Last].ev.type = "tool_end" /\ AllKeyless) =>
        LET u == UnresolvedStarts(steps[Last].lo, steps[Last].ev.tool_name) IN
        u # <<>> => IdOfStep(Last, "TOOL_CALL_RESULT") = u[1].toolCallId

\* Witness of C2: two keyless calls of one tool in flight, then both results,
\* the first result carrying the first start's identifier.
C2_Witness ==
    /\ Len(steps) = 4
    /\ AllKeyless
    /\ \A i \in 1..4 : steps[i].ev.tool_name = "a"
    /\ steps[1].ev.type = "tool_start" /\ steps[2].ev.type = "tool_start"
    /\ steps[3].ev.type = "tool_end" /\ steps[4].ev.type = "tool_end"
    /\ IdOfStep(3, "TOOL_CALL_RESULT") = IdOfStep(1, "TOOL_CALL_START")
    /\ IdOfStep(4, "TOOL_CALL_RESULT") = IdOfStep(2, "TOOL_CALL_START")
    /\ IdOfStep(1, "TOOL_CALL_START") # IdOfStep(2, "TOOL_CALL_START")


\* ------------------------------------------------------- thinking spans
\* A THINKING_START yielded before position p has no THINKING_END between it
\* and p.
ThinkingSpanOpenAt(p) ==
    \E i \in 1..(p - 1) :
        /\ out[i].type = "THINKING_START"
        /\ \A m \in (i + 1)..(p - 1) : out[m].type # "THINKING_END"

\* The same for the thinking text-message span.
ThinkingTextOpenAt(p) ==
    \E i \in 1..(p - 1) :
        /\ out[i].type = "THINKING_TEXT_MESSAGE_START"
        /\ \A m \in (i + 1)..(p - 1) :
               out[m].type # "THINKING_TEXT_MESSAGE_END"

NonThinkingFrameTypes ==
    {"TEXT_MESSAGE_CONTENT", "TOOL_CALL_START", "TOOL_CALL_ARGS",
     "TOOL_CALL_END", "TOOL_CALL_RESULT", "TEXT_MESSAGE_END"}

\* C5: no frame of a token or tool event, and no TEXT_MESSAGE_END, is yielded
\* while a thinking span or its text span is open: the open span, synthetic
\* or real, is closed by THINKING_TEXT_MESSAGE_END and THINKING_END first.
C5_ThinkingClosedBeforeNonThinking ==
    \A p \in 1..Len(out) :
        out[p].type \in NonThinkingFrameTypes =>
            ~ThinkingSpanOpenAt(p) /\ ~ThinkingTextOpenAt(p)


\* -------------------------------------------------- the synthetic span
NoThinkingEvents ==
    \A i \in 1..Len(steps) : steps[i].ev.type \notin ThinkingKinds

\* The stream holds exactly one thinking span, and it is complete:
\* THINKING_START, THINKING_TEXT_MESSAGE_START, content,
\* THINKING_TEXT_MESSAGE_END, THINKING_END, each once and in this order.
OneCompleteThinkingSpan ==
    LET n == Len(out)
        S == PosOfType(1, n, "THINKING_START")
        TS == PosOfType(1, n, "THINKING_TEXT_MESSAGE_START")
        TC == PosOfType(1, n, "THINKING_TEXT_MESSAGE_CONTENT")
        TE == PosOfType(1, n, "THINKING_TEXT_MESSAGE_END")
        E == PosOfType(1, n, "THINKING_END")
    IN /\ \A X \in {S, TS, TC, TE, E} : Cardinality(X) = 1
       /\ \A a \in S, b \in TS, c \in TC, d \in TE, e \in E :
              a < b /\ b < c /\ c < d /\ d < e

\* The synthetic span is not open once a real thinking event was consumed,
\* and its filler content never appears in the frames of an upstream event
\* (stated of the event consumed last, see Last).
SyntheticNeverAfterRealThinking ==
    /\ real_thinking_seen => ~synthetic_thinking_open
    /\ Last > 0 =>
          \A p \in steps[Last].lo..steps[Last].hi :
              out[p].type = "THINKING_TEXT_MESSAGE_CONTENT" =>
                  out[p].delta # SyntheticDelta

\* The first frames yielded on consuming the first upstream event, whatever
\* its kind, are THINKING_TEXT_MESSAGE_END and THINKING_END of the synthetic
\* span, directly after the prologue.
SyntheticClosedOnFirstEvent ==
    Len(steps) >= 1 =>
        /\ steps[1].lo = 6
        /\ steps[1].hi >= 7
        /\ out[6].type = "THINKING_TEXT_MESSAGE_END"
        /\ out[7].type = "THINKING_END"
        /\ ~synthetic_thinking_open

StreamOver == pc \in {"finished", "error"}

\* C4 as claimed: the synthetic span is never opened after a real thinking
\* event, it is closed before any output for the first upstream event, and a
\* stream whose upstream emitted no thinking event holds one complete
\* thinking span.
C4_SyntheticSpanAsClaimed ==
    /\ SyntheticNeverAfterRealThinking
    /\ SyntheticClosedOnFirstEvent
    /\ (StreamOver /\ NoThinkingEvents) => OneCompleteThinkingSpan

\* C4 as amended: as claimed, except that the complete span is promised only
\* when the upstream delivered at least one event or ended without error; an
\* upstream that raises before its first event leaves the synthetic span
\* unclosed in front of RUN_ERROR.
C4_SyntheticSpan ==
    /\ SyntheticNeverAfterRealThinking
    /\ SyntheticClosedOnFirstEvent
    /\ (StreamOver /\ NoThinkingEvents
          /\ (pc = "finished" \/ Len(steps) >= 1)) => OneCompleteThinkingSpan

\* Witness of C4: a finished run of a tool call and a token, no thinking
\* event, with its one complete (synthetic) span.
C4_Witness ==
    /\ pc = "finished"
    /\ Len(steps) = 3
    /\ steps[1].ev.type = "tool_start"
    /\ steps[2].ev.type = "tool_end"
    /\ steps[3].ev.type = "token"
    /\ OneCompleteThinkingSpan
    /\ out[6].type = "THINKING_TEXT_MESSAGE_END"
    /\ out[7].type = "THINKING_END"


\* ------------------------------------------------- start and end of a run
\* Position of the last frame yielded before the upstream ended or raised.
LastEventFrame == IF steps = <<>> THEN 5 ELSE steps[Len(steps)].hi

\* Position of the first frame yielded by the action taken last (see Last:
\* the frames before it were the last block of an earlier state).
LastBlockLo ==
    IF pc \in {"finished", "error"} THEN LastEventFrame + 1
    ELSE IF steps = <<>> THEN 1 ELSE steps[Len(steps)].lo

\* C8: once the upstream has raised, the frame yielded next is RUN_ERROR with
\* the error text and it is the last frame of the stream; no
\* TEXT_MESSAGE_END, RUN_FINISHED or second RUN_ERROR occurs in that stream,
\* and RUN_ERROR occurs in no other stream.
C8_RunErrorIsNextAndLast ==
    /\ pc = "error" =>
          LET n == Len(out) IN
          /\ n = LastEventFrame + 1
          /\ out[n].type = "RUN_ERROR"
          /\ out[n].message \in ErrTexts
          /\ \A p \in 1..(n - 1) :
                 out[p].type \notin {"RUN_ERROR", "RUN_FINISHED",
                                     "TEXT_MESSAGE_END"}
    /\ pc # "error" =>
          \A p \in LastBlockLo..Len(out) : out[p].type # "RUN_ERROR"

\* Witness of C8: the upstream raises after a thinking_start and a tool_start
\* and the stream ends with RUN_ERROR directly after the tool frames.
C8_Witness ==
    /\ pc = "error"
    /\ Len(steps) = 2
    /\ steps[1].ev.type = "thinking_start"
    /\ steps[2].ev.type = "tool_start"
    /\ out[Len(out)].type = "RUN_ERROR"
    /\ out[Len(out) - 1].type = "TOOL_CALL_END"

\* C9: when the upstream ends without error, the last two frames are
\* TEXT_MESSAGE_END for the run's message identifier (the one announced by
\* TEXT_MESSAGE_START) and RUN_FINISHED for the run's thread and run
\* identifiers (those of RUN_STARTED), and the stream holds no RUN_ERROR.
C9_FinishedStreamTail ==
    pc = "finished" =>
        LET n == Len(out) IN
        /\ n >= 4
        /\ out[n - 1] = [type |-> "TEXT_MESSAGE_END",
                         messageId |-> out[2].messageId]
        /\ out[n] = [type |-> "RUN_FINISHED", threadId |-> out[1].threadId,
                     runId |-> out[1].runId]
        /\ out[1].threadId = thread_id /\ out[1].runId = run_id
        /\ \A p \in 1..n : out[p].type # "RUN_ERROR"
        /\ \A p \in 1..(n - 2) :
               out[p].type \notin {"TEXT_MESSAGE_END", "RUN_FINISHED"}

\* Witness of C9: a run of a token and a thinking_start that ends normally.
C9_Witness ==
    /\ pc = "finished"
    /\ Len(steps) = 2
    /\ steps[1].ev.type = "token"
    /\ steps[2].ev.type = "thinking_start"
    /\ out[Len(out)].type = "RUN_FINISHED"
    /\ out[Len(out) - 1].type = "TEXT_MESSAGE_END"

\* C10: nothing is yielded before the run starts, and every started stream
\* begins with RUN_STARTED, TEXT_MESSAGE_START, THINKING_START,
\* THINKING_TEXT_MESSAGE_START and one THINKING_TEXT_MESSAGE_CONTENT; the
\* frames of the first upstream event, of the end of stream and of an
\* upstream failure all come after these five.
C10_StreamPrologue ==
    /\ pc = "start" => out = <<>> /\ steps = <<>>
    /\ pc # "start" =>
          /\ Len(out) >= 5
          /\ out[1] = [type |-> "RUN_STARTED", threadId |-> thread_id,
                       runId |-> run_id]
          /\ out[2] = [type |-> "TEXT_MESSAGE_START",
                       messageId |-> message_id, role |-> "assistant"]
          /\ out[3].type = "THINKING_START"
          /\ out[4].type = "THINKING_TEXT_MESSAGE_START"
          /\ out[5].type = "THINKING_TEXT_MESSAGE_CONTENT"
          /\ steps # <<>> => steps[1].lo = 6
          /\ StreamOver => Len(out) > 5 /\ LastEventFrame >= 5

\* Witness of C10: the upstream fails on its first pull; the stream is the
\* five prologue frames and RUN_ERROR.
C10_Witness ==
    /\ pc = "error"
    /\ steps = <<>>
    /\ Len(out) = 6
    /\ out[5].type = "THINKING_TEXT_MESSAGE_CONTENT"
    /\ out[6].type = "RUN_ERROR"

\* The identifier was allocated while handling the event whose frames start at
\* position lo: no earlier frame of the stream carries it.
NewlyAllocatedAt(lo, id) ==
    \A p \in 1..(lo - 1) :
        "toolCallId" \in DOMAIN out[p] => out[p].toolCallId # id

\* C11: the frames of a tool_start end with TOOL_CALL_ARGS then TOOL_CALL_END
\* carrying one toolCallId; a TOOL_CALL_START carrying that id comes right
\* before them exactly when the id was newly allocated by this event, and a
\* tool_start whose correlation key is still outstanding reuses the id of the
\* outstanding start and yields no TOOL_CALL_START.
C11_ToolStartFrames ==
    (Last > 0 /\ steps[Last].ev.type = "tool_start") =>
        LET lo == steps[Last].lo
            hi == steps[Last].hi
            k == steps[Last].ev.tool_call_key
            id == out[hi].toolCallId
            starts == PosOfType(lo, hi, "TOOL_CALL_START")
        IN /\ hi - lo >= 1
           /\ PosOfType(lo, hi, "TOOL_CALL_END") = {hi}
           /\ PosOfType(lo, hi, "TOOL_CALL_ARGS") = {hi - 1}
           /\ out[hi - 1].toolCallId = id
           /\ IF NewlyAllocatedAt(lo, id)
              THEN starts = {hi - 2} /\ out[hi - 2].toolCallId = id
              ELSE starts = {}
           /\ \A i \in 1..(Last - 1) :
                 (k # NoKey /\ OutstandingAt(i, Last, k)) =>
                     /\ starts = {}
                     /\ id = IdOfStep(i, "TOOL_CALL_ARGS")

\* Witness of C11: tool_start with key k1 twice; the second reuses the first
\* one's identifier and yields only TOOL_CALL_ARGS and TOOL_CALL_END.
C11_Witness ==
    /\ Len(steps) = 2
    /\ IsKeyed(1, "tool_start", "k1") /\ IsKeyed(2, "tool_start", "k1")
    /\ IdOfStep(1, "TOOL_CALL_START") # 0
    /\ IdOfStep(2, "TOOL_CALL_START") = 0
    /\ steps[2].hi - steps[2].lo = 1
    /\ IdOfStep(2, "TOOL_CALL_ARGS") = IdOfStep(1, "TOOL_CALL_START")
    /\ IdOfStep(2, "TOOL_CALL_END") = IdOfStep(1, "TOOL_CALL_START")

\* ---------------------------------------------- the thinking text span
\* C29: a THINKING_TEXT_MESSAGE_CONTENT frame is yielded only while a thinking
\* text-message span is open, and THINKING_TEXT_MESSAGE_START only while none
\* is: a thinking event with content that finds no text span open yields the
\* start first, a thinking_start yields it only if no text span is open, and
\* no two starts come without a THINKING_TEXT_MESSAGE_END between them.
C29_ThinkingContentInsideTextSpan ==
    /\ \A p \in LastBlockLo..Len(out) :
          /\ out[p].type = "THINKING_TEXT_MESSAGE_CONTENT"
                => ThinkingTextOpenAt(p)
          /\ out[p].type = "THINKING_TEXT_MESSAGE_START"
                => ~ThinkingTextOpenAt(p)
    /\ pc = "loop" => (thinking_text_open <=> ThinkingTextOpenAt(Len(out) + 1))
    /\ (Last > 0 /\ steps[Last].ev.type = "thinking"
           /\ steps[Last].ev.content # "") =>
          /\ out[steps[Last].hi]
                = FDelta("THINKING_TEXT_MESSAGE_CONTENT", steps[Last].ev.content)
          /\ ~ThinkingTextOpenAt(steps[Last].hi - 1) =>
                out[steps[Last].hi - 1].type = "THINKING_TEXT_MESSAGE_START"

\* Witness of C29: after the synthetic span, a thinking event with content
\* opens the text span itself, a thinking_start that follows leaves it as it
\* is, and the next content goes into the same span.
C29_Witness ==
    /\ Len(steps) = 3
    /\ steps[1].ev = Ev("thinking", "", NoKey, "x")
    /\ steps[2].ev.type = "thinking_start"
    /\ steps[3].ev = Ev("thinking", "", NoKey, "x")
    /\ PosOfType(steps[1].lo, steps[1].hi, "THINKING_TEXT_MESSAGE_START")
          = {steps[1].hi - 1}
    /\ FramesOf(2) = <<F("THINKING_START")>>
    /\ FramesOf(3) = <<FDelta("THINKING_TEXT_MESSAGE_CONTENT", "x")>>


\* ====================================================================
\* Properties of the OpenAI-dialect stream
\* ====================================================================
IsTokenEvent(e) == e.type = "token"

\* The token events consumed so far, in upstream order.
TokensConsumed == SelectSeq(oa_steps, IsTokenEvent)

OaOver == oa_pc \in {"done", "failed"}

\* C6: a stream whose upstream ended without error is the role chunk, one
\* content chunk per consumed token event in upstream order and nothing for
\* any other event, the stop chunk, and [DONE]; with no token, and for a
\* request without user message, it is role chunk, stop chunk, [DONE].
C6_OpenAIStreamShape ==
    oa_pc = "done" =>
        LET n == Len(oa_out)
            toks == TokensConsumed
        IN /\ n = Len(toks) + 3
           /\ oa_out[1].delta = {<<"role", "assistant">>}
           /\ oa_out[1].finish_reason = "null"
           /\ \A i \in 1..Len(toks) :
                 /\ oa_out[i + 1].delta = {<<"content", toks[i].content>>}
                 /\ oa_out[i + 1].finish_reason = "null"
           /\ oa_out[n - 1].delta = {}
           /\ oa_out[n - 1].finish_reason = "stop"
           /\ \A i \in 1..(n - 1) :
                 /\ oa_out[i].object = "chat.completion.chunk"
                 /\ oa_out[i].id = oa_out[1].id
           /\ oa_out[n] = [literal |-> "[DONE]"]
           /\ (latest_message = "" => n = 3)

\* Witness of C6: thinking_start, token "x", tool_end, token "" are consumed
\* and the stream is role, "x", "", stop, [DONE].
C6_Witness ==
    /\ oa_pc = "done"
    /\ Len(oa_steps) = 4
    /\ oa_steps[1].type = "thinking_start"
    /\ oa_steps[2] = Ev("token", "", NoKey, "x")
    /\ oa_steps[3].type = "tool_end"
    /\ oa_steps[4] = Ev("token", "", NoKey, "")
    /\ Len(oa_out) = 5
    /\ oa_out[2].delta = {<<"content", "x">>}
    /\ oa_out[3].delta = {<<"content", "">>}

\* C7: an upstream failure at any point yields one error-shaped chunk and
\* then [DONE], directly after what was yielded so far, and no exception
\* leaves the generator; every stream that is over, successful or failed,
\* holds [DONE] exactly once, as its last payload, and no stream holds it
\* earlier.
C7_ErrorChunkThenDone ==
    /\ oa_pc # "propagated"
    /\ oa_pc = "failed" =>
          LET n == Len(oa_out) IN
          /\ n = Len(TokensConsumed) + 3
          /\ "error" \in DOMAIN oa_out[n - 1]
          /\ oa_out[n - 1].error.message \in ErrTexts
          /\ oa_out[n - 1].error.type = "server_error"
          /\ \A i \in 1..(n - 2) : "error" \notin DOMAIN oa_out[i]
    /\ OaOver => /\ oa_out # <<>>
                 /\ oa_out[Len(oa_out)] = [literal |-> "[DONE]"]
    /\ \A i \in 1..Len(oa_out) :
           oa_out[i] = [literal |-> "[DONE]"] => OaOver /\ i = Len(oa_out)

\* Witness of C7: the upstream raises between two pulls, after a token and
\* before anything else.
C7_Witness ==
    /\ oa_pc = "failed"
    /\ Len(oa_steps) = 1
    /\ oa_steps[1] = Ev("token", "", NoKey, "x")
    /\ Len(oa_out) = 4
    /\ "error" \in DOMAIN oa_out[3]
    /\ oa_out[4] = OaDone

\* ====================================================================
\* Properties of the server registry
\* ====================================================================
\* _get_server: the config stored under the name; NoServer stands for the
\* ValueError of an unknown name.
NoServer == [name |-> ""]
GetServer(s, server_name) ==
    IF server_name \in NamesOf(s)
    THEN s[CHOOSE i \in 1..Len(s) : s[i].name = server_name]
    ELSE NoServer

\* What the first n calls of the log leave under a name: the config of the
\* last register for the name if no remove of the name follows it.
EntryAfter(n, server_name) ==
    LET idx == {i \in 1..n : /\ reg_log[i].op \in {"register", "remove"}
                             /\ reg_log[i].name = server_name} IN
    IF idx = {} THEN NoServer
    ELSE LET m == CHOOSE i \in idx : \A j \in idx : j <= i IN
         IF reg_log[m].op = "register" THEN reg_log[m].config ELSE NoServer

EntriesAfter(n) == {EntryAfter(n, name) : name \in ServerNames} \ {NoServer}

\* C18: after any sequence of register and remove calls the registry holds
\* at most one entry per name, the entry under a name is the config of the
\* last register of that name not followed by a remove, every list call
\* returned exactly those entries, and every remove returned true exactly
\* when the name was present just before the call.
C18_RegistryIsLastWriteMap ==
    /\ \A i, j \in 1..Len(servers) : servers[i].name = servers[j].name => i = j
    /\ \A name \in ServerNames :
          GetServer(servers, name) = EntryAfter(Len(reg_log), name)
    /\ NamesOf(servers) \subseteq ServerNames
    /\ \A i \in 1..Len(reg_log) :
          /\ reg_log[i].op = "list" =>
                /\ {reg_log[i].result[p] : p \in 1..Len(reg_log[i].result)}
                       = EntriesAfter(i - 1)
                /\ Len(reg_log[i].result) = Cardinality(EntriesAfter(i - 1))
          /\ reg_log[i].op = "remove" =>
                (reg_log[i].result
                     <=> EntryAfter(i - 1, reg_log[i].name) # NoServer)

\* Witness of C18: a name registered twice with different configs and then
\* removed, the remove returning true.
C18_Witness ==
    /\ \E i, j, k \in 1..Len(reg_log) :
          /\ i < j /\ j < k
          /\ reg_log[i].op = "register" /\ reg_log[j].op = "register"
          /\ reg_log[k].op = "remove" /\ reg_log[k].result
          /\ reg_log[i].name = "s1" /\ reg_log[j].name = "s1"
          /\ reg_log[k].name = "s1"
          /\ reg_log[i].config # reg_log[j].config
    /\ GetServer(servers, "s1") = NoServer

\* C19: a PUT on an existing name with a different name in the body leaves
\* the old name absent and the new name mapped to the submitted config; with
\* the same name the entry is replaced where it stood.
C19_PutRenamesOrReplaces ==
    (last_req.method = "PUT"
       /\ last_req.server_name \in NamesOf(last_req.before)) =>
        /\ last_req.status = 200
        /\ GetServer(servers, last_req.payload.name) = last_req.payload
        /\ IF last_req.payload.name # last_req.server_name
           THEN last_req.server_name \notin NamesOf(servers)
           ELSE /\ Len(servers) = Len(last_req.before)
                /\ \A i \in 1..Len(servers) :
                      servers[i] = IF last_req.before[i].name
                                         = last_req.server_name
                                   THEN last_req.payload
                                   ELSE last_req.before[i]

\* Witness of C19: s1 renamed to s2 by a PUT on s1.
C19_Witness ==
    /\ last_req.method = "PUT" /\ last_req.status = 200
    /\ last_req.server_name = "s1" /\ last_req.payload.name = "s2"
    /\ NamesOf(last_req.before) = {"s1"}
    /\ NamesOf(servers) = {"s2"}
    /\ servers[1] = last_req.payload

\* C20: DELETE and PUT on a name that is not registered answer 404 and leave
\* the registry as it was.
C20_UnknownNameIs404 ==
    (last_req.method \in {"PUT", "DELETE"}
       /\ last_req.server_name \notin NamesOf(last_req.before)) =>
        /\ last_req.status = 404
        /\ servers = last_req.before

\* Witness of C20: with s1 registered, a DELETE on s2 answers 404 and the
\* registry still holds s1 alone.
C20_Witness ==
    /\ last_req.method = "DELETE" /\ last_req.status = 404
    /\ last_req.server_name = "s2"
    /\ NamesOf(servers) = {"s1"}
    /\ servers = last_req.before
    /\ \E i \in 1..Len(reg_log) :
          reg_log[i].op = "list" /\ reg_log[i].result = servers
             /\ i > 1 /\ reg_log[i - 1].op = "register"

\* ====================================================================
\* Properties of discovery: dedup and save
\* ====================================================================
KeysOf(items) == {KeyOf(items[i]) : i \in 1..Len(items)}

\* C12: the deduplicated result holds exactly one entry for each
\* (base_url, transport) that has a hit, that entry is one of the hits and
\* none of the pair's hits has a lower latency, and found_count is the length
\* of the returned list.
C12_DedupKeepsLowestLatency ==
    scan_pc = "returned" =>
        LET r == scan_result.servers IN
        /\ KeysOf(r) = KeysOf(discovered)
        /\ Len(r) = Cardinality(KeysOf(discovered))
        /\ \A i \in 1..Len(r) :
              /\ \E j \in 1..Len(discovered) : discovered[j] = r[i]
              /\ \A j \in 1..Len(discovered) :
                    KeyOf(discovered[j]) = KeyOf(r[i]) =>
                        r[i].latency_ms <= discovered[j].latency_ms
        /\ scan_result.found_count = Len(r)

\* Witness of C12: two hits of one pair at 50ms and 120ms, one entry at 50ms.
C12_Witness ==
    /\ scan_pc = "returned"
    /\ Len(discovered) = 2
    /\ KeyOf(discovered[1]) = KeyOf(discovered[2])
    /\ discovered[1].latency_ms = 50 /\ discovered[2].latency_ms = 120
    /\ Len(scan_result.servers) = 1
    /\ scan_result.servers[1].latency_ms = 50
    /\ scan_result.found_count = 1

\* A save has run: through discover_mcp_servers with save set, or directly.
SaveRan == scan_pc = "saved" \/ (scan_pc = "returned" /\ scan_args.save)

\* The list the save was handed.
SavedItems == IF scan_pc = "saved" THEN discovered ELSE scan_result.servers

\* The entries behind those the registry held before the save.
NewEntries == SubSeq(servers, Len(reg_before) + 1, Len(servers))

\* C13: a save adds no entry for a (base_url, transport) that the registry
\* already held or that an earlier hit of the same save was registered for:
\* the added entries have pairwise different pairs, none of them a pair of the
\* registry before, and saved_count counts exactly the added entries.
C13_SaveNeverDuplicatesPair ==
    SaveRan =>
        /\ Len(servers) >= Len(reg_before)
        /\ SubSeq(servers, 1, Len(reg_before)) = reg_before
        /\ \A i \in 1..Len(NewEntries) :
              /\ KeyOf(NewEntries[i]) \notin KeysOf(reg_before)
              /\ \A j \in 1..Len(NewEntries) :
                    KeyOf(NewEntries[i]) = KeyOf(NewEntries[j]) => i = j
        /\ scan_result.saved_count = Len(NewEntries)
        /\ scan_result.saved_count
               = Cardinality(KeysOf(SavedItems) \ KeysOf(reg_before))

\* Witness of C13: a list with two hits of one pair and a hit whose pair is
\* registered; one entry is added.
C13_Witness ==
    /\ scan_pc = "saved"
    /\ Len(discovered) = 3
    /\ KeyOf(discovered[1]) = KeyOf(discovered[2])
    /\ KeyOf(discovered[3]) # KeyOf(discovered[1])
    /\ KeyOf(discovered[3]) \in KeysOf(reg_before)
    /\ scan_result.saved_count = 1
    /\ Len(servers) = Len(reg_before) + 1

\* C14: each entry a save adds is named by the stem
\* prefix-transport-host-port if no entry held that name when it was added,
\* else by the first of stem-2, stem-3, ... that no entry held; its name
\* differs from every name in the registry at that moment.
C14_SaveNamesAreFresh ==
    SaveRan =>
        /\ SubSeq(servers, 1, Len(reg_before)) = reg_before
        /\ \A i \in 1..Len(NewEntries) :
              LET e == NewEntries[i]
                  then == NamesOf(SubSeq(servers, 1, Len(reg_before) + i - 1))
                  stem == Stem(scan_args.name_prefix, e.transport, e.base_url)
              IN /\ e.name \notin then
                 /\ IF stem \notin then THEN e.name = stem
                    ELSE \E k \in 2..(Len(servers) + 1) :
                            /\ e.name = stem \o "-" \o ToString(k)
                            /\ \A m \in 2..(k - 1) :
                                  (stem \o "-" \o ToString(m)) \in then

\* Witness of C14: the stem and stem-2 are taken in the registry, the endpoint
\* is registered as stem-3; a second endpoint with the same stem, saved after
\* it, becomes stem-4.
C14_Witness ==
    /\ SaveRan
    /\ Len(reg_before) = 2
    /\ Len(NewEntries) = 2
    /\ LET stem == Stem("d", "mcp_jsonrpc", BaseUrl("h1", 8080)) IN
       /\ NamesOf(reg_before) = {stem, stem \o "-2"}
       /\ NewEntries[1].name = stem \o "-3"
       /\ NewEntries[2].name = stem \o "-4"
       /\ NewEntries[1].base_url # NewEntries[2].base_url

\* ====================================================================
\* Properties of the scan
\* ====================================================================
\* The set as a sequence position: the probes of a task in the order it
\* issues them, numbered from 0.
ProbeTransport(n) == IF n % 2 = 0 THEN "mcp_jsonrpc" ELSE "esp32_rest"

\* The (base_url, transport) pairs of the probes of host h that came to a
\* positive hit, among those that have returned.
PositiveKeys(h) ==
    {<<BaseUrl(h, ports[(n \div 2) + 1]), ProbeTransport(n)>> :
        n \in {m \in 0..(Len(tasks[h].outcomes) - 1) :
                  tasks[h].outcomes[m + 1] = "hit"}}

ScanAccepted == scan_pc \in {"scanning", "returned"} /\ tasks # <<>>

\* Whatever the probes came to: a task's list holds its positive hits and
\* nothing else, and a returned scan has had every probe of every enumerated
\* host answered, reports the number of enumerated hosts and returns the
\* positive hits, one entry each.
ScanIsolatesProbes ==
    ScanAccepted =>
        /\ \A h \in DOMAIN tasks :
              /\ KeysOf(tasks[h].found) = PositiveKeys(h)
              /\ Len(tasks[h].found) = Cardinality(PositiveKeys(h))
              /\ tasks[h].n = Len(tasks[h].outcomes)
              /\ tasks[h].n <= 2 * Len(ports)
        /\ scan_pc = "returned" =>
              /\ \A h \in DOMAIN tasks : tasks[h].n = 2 * Len(ports)
              /\ DOMAIN tasks = {hosts[i] : i \in 1..Len(hosts)}
              /\ scan_result.error = ""
              /\ scan_result.hosts_scanned = Len(hosts)
              /\ Len(hosts) = IF scan_args.max_hosts < Len(NetworkHosts)
                              THEN scan_args.max_hosts ELSE Len(NetworkHosts)
              /\ KeysOf(scan_result.servers)
                     = UNION {PositiveKeys(h) : h \in DOMAIN tasks}
              /\ Len(scan_result.servers)
                     = Cardinality(UNION {PositiveKeys(h) : h \in DOMAIN tasks})

\* C15: for every assignment of outcomes (hit, negative, 5xx, exception,
\* timeout) to the probes, a failing probe is a negative for that probe alone,
\* and an accepted scan ends by returning hosts_scanned equal to the number
\* of enumerated hosts and servers equal to the positive hits.
C15_ProbeFailuresNeverAbortScan ==
    /\ []ScanIsolatesProbes
    /\ (scan_pc = "scanning") ~> (scan_pc = "returned")

\* Witness of C15: a returned scan of two hosts in which a probe raised, a
\* probe timed out, a probe got a 5xx, and a later probe of the same host and a
\* probe of the other host were hits that are in the result.
C15_Witness ==
    /\ scan_pc = "returned"
    /\ Len(hosts) = 2 /\ Len(ports) = 1
    /\ scan_args.save
    /\ tasks["h1"].outcomes = <<"exception", "hit">>
    /\ tasks["h2"].outcomes = <<"timeout", "5xx">>
    /\ Len(scan_result.servers) = 1
    /\ scan_result.servers[1].transport = "esp32_rest"
    /\ scan_result.hosts_scanned = 2

\* ports_csv names at least one port in 1..65535.
HasValidPort(ports_csv) ==
    \E i \in 1..Len(ports_csv) :
        /\ ports_csv[i].kind = "int"
        /\ ports_csv[i].value >= 1 /\ ports_csv[i].value <= 65535

\* C17: a scan request without a valid port, or with max_hosts not positive,
\* is rejected with a ValueError; no task is created, so no probe is issued,
\* and the registry is as it was, with save set or not.
C17_InvalidRequestRejected ==
    (scan_pc \notin {"idle", "received", "gathered", "saved"}
       /\ (~HasValidPort(scan_args.ports_csv) \/ scan_args.max_hosts <= 0)) =>
        /\ scan_pc = "rejected"
        /\ scan_result.error = "ValueError"
        /\ tasks = <<>>
        /\ discovered = <<>>
        /\ servers = reg_before

\* Witness of C17: ports_csv "70000," with save set is rejected.
C17_Witness ==
    /\ scan_pc = "rejected"
    /\ scan_args.ports_csv = <<Num(70000), Blank>>
    /\ scan_args.save
    /\ scan_args.max_hosts = 2
    /\ scan_result.error = "ValueError"
    /\ servers = reg_before

\* scan_host tasks inside the section of the semaphore; each awaits one probe.
InSection ==
    BagCardinality([p \in {q \in BagToSet(pool) : q.pos = "probing"}
                       |-> CopiesIn(p, pool)])

\* scan_host tasks waiting at the semaphore.
Waiting == CopiesIn(Created, pool)

\* At most 32 tasks, so at most 32 probes, are inside the section, and the
\* semaphore counts the free slots.
PoolCapped ==
    /\ InSection <= 32
    /\ sem_value = 32 - InSection
    /\ BagCardinality(pool) = Len(hosts)

\* C16: at every moment at most 32 scan_host tasks are inside the section of
\* the semaphore, however many hosts are scanned, and every task enters it
\* in the end.
C16_AtMost32TasksInSection ==
    /\ []PoolCapped
    /\ <>(Waiting = 0)

\* Witness of C16: of 33 tasks, 32 are inside the section, and the last one
\* got in after another had left.
C16_Witness ==
    /\ Len(hosts) = 33
    /\ InSection = 32
    /\ Waiting = 0
    /\ CopiesIn(Done, pool) = 1

\* ====================================================================
\* Tool-call identifiers of one AG-UI run
\* ====================================================================
\* Positions of the TOOL_CALL_RESULT frames of the run.
ResultPos == PosOfType(1, Len(out), "TOOL_CALL_RESULT")

\* C31: within one run no tool-call identifier is resolved twice: no
\* identifier is carried by more than one TOOL_CALL_RESULT frame, also when
\* keyed and keyless calls of one tool name are mixed or when a keyed
\* tool_end names another tool than its tool_start did.
C31_NoIdResolvedTwice ==
    \A p, q \in ResultPos : p # q => out[p].toolCallId # out[q].toolCallId

\* C32: every toolCallId carried by a TOOL_CALL_RESULT frame was announced
\* earlier in the same stream by a TOOL_CALL_START frame, also for a
\* tool_end that no tool_start preceded.
C32_ResultIdWasAnnounced ==
    \A p \in ResultPos :
        \E q \in PosOfType(1, p - 1, "TOOL_CALL_START") :
            out[q].toolCallId = out[p].toolCallId

\* The identifiers carried by the frames out[lo..hi].
IdsIn(lo, hi) ==
    {out[p].toolCallId : p \in {q \in lo..hi : "toolCallId" \in DOMAIN out[q]}}

\* C33: the tool-call identifiers allocated within one run are pairwise
\* distinct: every allocation advances the run-local counter, which is part
\* of the identifier, so the identifiers of the run are exactly the counter
\* values 1..tool_counter, and an identifier announced by a TOOL_CALL_START
\* occurs in no earlier frame.
C33_AllocatedIdsDistinct ==
    /\ IdsIn(1, Len(out)) = 1..tool_counter
    /\ \A p \in LastBlockLo..Len(out) :
          out[p].type = "TOOL_CALL_START" =>
              out[p].toolCallId \notin IdsIn(1, LastBlockLo - 1)

\* Witness of C33: three allocations in one run, two by tool_starts and one
\* by a tool_end that found nothing to resolve, with three identifiers.
C33_Witness ==
    /\ tool_counter = 3
    /\ Cardinality(IdsIn(1, Len(out))) = 3
    /\ Cardinality(PosOfType(1, Len(out), "TOOL_CALL_START")) = 2
    /\ \E p \in ResultPos :
          out[p].toolCallId
              \notin {out[q].toolCallId :
                         q \in PosOfType(1, Len(out), "TOOL_CALL_START")}

\* ====================================================================
\* Termination of one AG-UI run
\* ====================================================================
\* Positions of the terminal frames of the stream.
TerminalPos ==
    {p \in 1..Len(out) : out[p].type \in {"RUN_FINISHED", "RUN_ERROR"}}

\* A terminal frame is in the stream exactly when the generator has
\* returned; there is one of them and it is the last frame.
TerminalOnceAndLast ==
    IF pc \in {"finished", "error"}
    THEN TerminalPos = {Len(out)}
    ELSE TerminalPos = {}

\* C34: when the upstream ends or raises, the translator eventually emits
\* exactly one terminal frame, RUN_FINISHED or RUN_ERROR and never both, and
\* that frame is the last frame of the stream.
C34_OneTerminalFrameEventually ==
    /\ []TerminalOnceAndLast
    /\ <>(pc \in {"finished", "error"})

\* Witness of C34: the upstream raised after three events and RUN_ERROR is
\* the only terminal frame, at the end of the stream.
C34_Witness ==
    /\ pc = "error"
    /\ Len(steps) = 3
    /\ TerminalPos = {Len(out)}
    /\ out[Len(out)].type = "RUN_ERROR"

\* ====================================================================
\* Bracketing of the thinking frames
\* ====================================================================
\* Number of frames of the given type among out[1..p].
CountOfType(p, type) == Cardinality(PosOfType(1, p, type))

\* Thinking spans open after out[1..p].
OpenSpansAt(p) ==
    CountOfType(p, "THINKING_START") - CountOfType(p, "THINKING_END")

\* C35: THINKING_END is never emitted when no thinking span is open, and
\* when RUN_FINISHED is emitted the stream holds as many THINKING_START as
\* THINKING_END frames, whatever the upstream sends (a thinking_end without
\* a thinking_start before it, a thinking_start never followed by a
\* thinking_end).
C35_ThinkingEndMatchesStart ==
    /\ \A p \in PosOfType(1, Len(out), "THINKING_END") : OpenSpansAt(p - 1) > 0
    /\ pc = "finished" => OpenSpansAt(Len(out)) = 0

\* ---------------------------------------- upstreams shaped like the adapter's
RECURSIVE ShapedSpanOpen(_)
\* Whether a thinking span is open after the first n consumed events, "bad"
\* when they break the shape stream_events gives its output: thinking_start
\* and thinking_end alternate, thinking occurs only inside a span, a token or
\* tool event only outside.
ShapedSpanOpen(n) ==
    IF n = 0 THEN "closed"
    ELSE LET before == ShapedSpanOpen(n - 1)
             type == steps[n].ev.type
         IN IF before = "bad" THEN "bad"
            ELSE IF type = "thinking_start"
                 THEN IF before = "closed" THEN "open" ELSE "bad"
            ELSE IF type = "thinking_end"
                 THEN IF before = "open" THEN "closed" ELSE "bad"
            ELSE IF type = "thinking"
                 THEN IF before = "open" THEN "open" ELSE "bad"
            ELSE IF before = "closed" THEN "closed" ELSE "bad"

\* The upstream so far is one the adapter's shape allows; a stream that
\* ended has closed its span (stream_events yields thinking_end before it
\* returns).
AdapterShaped ==
    /\ ShapedSpanOpen(Len(steps)) # "bad"
    /\ pc = "finished" => ShapedSpanOpen(Len(steps)) = "closed"

OutsideSpanTypes ==
    {"TEXT_MESSAGE_CONTENT", "TOOL_CALL_START", "TOOL_CALL_ARGS",
     "TOOL_CALL_END", "TOOL_CALL_RESULT", "TEXT_MESSAGE_END"}

RECURSIVE Bracketing(_)
\* Scan of out[1..p]: the number of thinking spans open, whether a thinking
\* text message is open, and whether every frame so far was in place.
Bracketing(p) ==
    IF p = 0 THEN [ok |-> TRUE, spans |-> 0, text |-> FALSE]
    ELSE LET b == Bracketing(p - 1)
             type == out[p].type
         IN IF type = "THINKING_START"
            THEN [b EXCEPT !.spans = @ + 1]
            ELSE IF type = "THINKING_END"
            THEN [b EXCEPT !.ok = @ /\ b.spans > 0 /\ ~b.text,
                           !.spans = @ - 1]
            ELSE IF type = "THINKING_TEXT_MESSAGE_START"
            THEN [b EXCEPT !.ok = @ /\ b.spans > 0 /\ ~b.text,
                           !.text = TRUE]
            ELSE IF type = "THINKING_TEXT_MESSAGE_END"
            THEN [b EXCEPT !.ok = @ /\ b.spans > 0 /\ b.text,
                           !.text = FALSE]
            ELSE IF type \in OutsideSpanTypes
            THEN [b EXCEPT !.ok = @ /\ b.spans = 0]
            ELSE b

EntriesBeside(s, names) == {s[i] : i \in {j \in 1..Len(s) : s[j].name \notin names}}

\* C40: a PUT /servers/{name} that renames an entry changes only the
\* entries under the old and the new name: every other entry is present and
\* unchanged, and the number of entries stays the same, also when the new
\* name is already the name of another registered server.
C40_RenameKeepsOtherEntriesAndCount ==
    (/\ last_req.method = "PUT"
     /\ last_req.status = 200
     /\ last_req.payload.name # last_req.server_name) =>
        LET touched == {last_req.server_name, last_req.payload.name} IN
        /\ EntriesBeside(servers, touched)
               = EntriesBeside(last_req.before, touched)
        /\ Len(servers) = Len(last_req.before)

\* ====================================================================
\* Saving discovered endpoints and the entries already registered
\* ====================================================================
\* C37: saving discovered endpoints never replaces, renames or removes an
\* entry the registry held before: each of them is still registered,
\* unchanged and under its name, and the number of entries has grown by
\* exactly saved_count.
C37_SaveKeepsExistingEntries ==
    SaveRan =>
        /\ \A i \in 1..Len(reg_before) :
              /\ reg_before[i].name \in NamesOf(servers)
              /\ GetServer(servers, reg_before[i].name) = reg_before[i]
        /\ Len(servers) = Len(reg_before) + scan_result.saved_count

\* Witness of C37: the registry holds an entry under the very name the save
\* would generate for a discovered endpoint; the endpoint is registered
\* under another name and the entry is still there.
C37_Witness ==
    /\ SaveRan
    /\ Len(reg_before) = 2
    /\ scan_result.saved_count = 2
    /\ Len(servers) = 4
    /\ \E i \in 1..2, j \in 3..4 :
          /\ reg_before[i].name
                 = Stem(scan_args.name_prefix, servers[j].transport,
                        servers[j].base_url)
          /\ servers[i] = reg_before[i]
          /\ servers[j].name # reg_before[i].name

\* ====================================================================
\* A scan with save set, repeated
\* ====================================================================
\* Name prefixes of the second scan: that of the first scan, or another.
ResavePrefixes == NamePrefixes \cup {"e"}

\* The first scan saves what it found.
InitResave ==
    /\ InitDiscovery
    /\ scan_args.save

\* A second discover_mcp_servers with save set finds the endpoints of the
\* first: lines 255-258 hand _register_discovered the same deduplicated
\* list, with the prefix of the second request.  reg_before is the registry
\* as the second save found it.
SaveAgain ==
    /\ scan_pc = "returned"
    /\ scan_args.save
    /\ \E name_prefix \in ResavePrefixes :
       \E reg \in {RegisterDiscovered(scan_result.servers, name_prefix,
                                      servers)} :
          /\ servers' = reg.servers
          /\ scan_result' = [scan_result EXCEPT !.saved_count = reg.saved]
          /\ scan_args' = [scan_args EXCEPT !.name_prefix = name_prefix]
    /\ reg_before' = servers
    /\ scan_pc' = "resaved"
    /\ UNCHANGED <<ports, hosts, sem_value, tasks, pool, discovered>>
    /\ UNCHANGED <<reg_log, last_req>>
    /\ UNCHANGED <<aguiVars, oaVars, agentVars, graph_calls, save_runs>>

NextResave ==
    \/ DedupAndSave
    \/ SaveAgain

SpecResave == InitResave /\ [][NextResave]_vars

\* C38: saving is idempotent: saving the same deduplicated list a second
\* time, with the same or another name prefix, registers nothing, returns
\* saved_count 0 and leaves the registry as it was.
C38_SecondSaveRegistersNothing ==
    scan_pc = "resaved" =>
        /\ scan_result.saved_count = 0
        /\ servers = reg_before

\* Witness of C38: two endpoints were saved under prefix d; the second save
\* of the same list, under prefix e, added nothing.
C38_Witness ==
    /\ scan_pc = "resaved"
    /\ scan_args.name_prefix = "e"
    /\ Len(scan_result.servers) = 2
    /\ \A i \in 1..2 :
          \E j \in 1..Len(servers) :
              /\ KeyOf(servers[j]) = KeyOf(scan_result.servers[i])
              /\ servers[j].name = Stem("d", servers[j].transport,
                                        servers[j].base_url)
    /\ \A j \in 1..Len(servers) :
          servers[j].name # Stem("e", servers[j].transport,
                                 servers[j].base_url)

\* ====================================================================
\* Two concurrent scans with save set, and a POST /servers
\* ====================================================================
ScanIds == {1, 2}

\* The endpoint both scans find, and another whose generated name has the
\* same stem.
SharedHit == Hit("mcp_jsonrpc", BaseUrl("h1", 8080), 50)
OtherHit == Hit("mcp_jsonrpc", BaseUrl("h1-8080", 80), 120)
FoundLists == {<<SharedHit>>, <<OtherHit, SharedHit>>}
SharedKey == KeyOf(SharedHit)
SharedStem == Stem("d", SharedHit.transport, SharedHit.base_url)

\* The locals of one call of discover_mcp_servers: seen is the registry as
\* it was when the request arrived.
SaveRun(at, name_prefix, seen, final, saved_count) ==
    [pc |-> at, name_prefix |-> name_prefix, seen |-> seen, final |-> final,
     saved_count |-> saved_count]

\* Bodies of the concurrent POST /servers: any name, a generated one
\* included, with any endpoint.
ConcurrentPayloads == {c.config : c \in DiscConfigs}

InitTwoScans ==
    /\ AguiIdle
    /\ OaIdle
    /\ AgentIdle
    /\ reg_log = <<>> /\ last_req = NoRequest
    /\ servers \in DiscRegistries
    /\ reg_before = servers
    /\ scan_pc = "idle" /\ scan_args = NoArgs
    /\ ports = <<>> /\ hosts = <<>>
    /\ sem_value = 0
    /\ tasks = <<>>
    /\ pool = EmptyBag
    /\ discovered = <<>>
    /\ scan_result = NoResult
    /\ save_runs \in [ScanIds -> {SaveRun("idle", p, <<>>, <<>>, 0) :
                                     p \in ResavePrefixes}]

twoScansRest ==
    <<scan_pc, scan_args, ports, hosts, sem_value, tasks, pool, discovered,
      scan_result, reg_before, aguiVars, oaVars, agentVars, graph_calls>>

\* Mutant of the snapshot: the save works on the registry as it was when
\* the request arrived, before the probes were awaited.
ExistingAtRequest(seen, now) == seen

\* Line 148: existing = self._mcp_toolkit.list_servers() is read inside
\* _register_discovered, after the last await of the coroutine (line 240).
ExistingAtSave(seen, now) == ListServers(now)

\* Lines 148-155: existing_keys, existing_names and saved before the loop.
SaveStart(s, existing) ==
    [servers |-> s,
     keys |-> {KeyOf(existing[i]) : i \in 1..Len(existing)},
     names |-> NamesOf(existing),
     saved |-> 0]

\* Lines 201-240: the request is validated and the coroutine waits in
\* gather for its probes.
TwoScansReceive ==
    /\ \E i \in ScanIds :
        /\ save_runs[i].pc = "idle"
        /\ save_runs' = [save_runs EXCEPT ![i].pc = "scanning",
                                          ![i].seen = servers]
    /\ UNCHANGED registryVars
    /\ UNCHANGED twoScansRest

\* Lines 241-269: gather returns and the coroutine runs to its return
\* without another await: dedup, snapshot of the registry, name choice and
\* registration are one step of the event loop.
TwoScansSave ==
    /\ \E i \in ScanIds, items \in FoundLists :
       \E final \in {Dedup(items)} :
       \E reg \in {SaveLoop(final,
                            SaveStart(servers,
                                      ExistingAtSave(save_runs[i].seen,
                                                     servers)),
                            save_runs[i].name_prefix)} :
          /\ save_runs[i].pc = "scanning"
          /\ servers' = reg.servers
          /\ save_runs' = [save_runs EXCEPT ![i].pc = "returned",
                                            ![i].final = final,
                                            ![i].saved_count = reg.saved]
    /\ UNCHANGED <<reg_log, last_req>>
    /\ UNCHANGED twoScansRest

\* POST /servers (lines 602-614), once, at any moment.
TwoScansAddServer ==
    /\ last_req = NoRequest
    /\ \E payload \in ConcurrentPayloads :
        LET after == RegisterServer(servers, payload) IN
        /\ servers' = after
        /\ reg_log' = reg_log \o <<RegisterCall(payload), ListCall(after)>>
        /\ last_req' = Req("POST", "", payload, 200, ListServers(after),
                           servers)
    /\ UNCHANGED save_runs
    /\ UNCHANGED twoScansRest

NextTwoScans ==
    \/ TwoScansReceive
    \/ TwoScansSave
    \/ TwoScansAddServer

SpecTwoScans == InitTwoScans /\ [][NextTwoScans]_vars

\* Both scans have returned and the POST has been answered.
TwoScansDone ==
    /\ \A i \in ScanIds : save_runs[i].pc = "returned"
    /\ last_req # NoRequest

\* The POST added an entry under a name that was free.
PostAddedEntry ==
    last_req # NoRequest /\ last_req.payload.name \notin NamesOf(last_req.before)

\* Nothing but the scans registers the endpoint, and the POST overwrites
\* no entry.
OnlyScansRegisterShared ==
    /\ SharedKey \notin KeysOf(reg_before)
    /\ KeyOf(last_req.payload) # SharedKey
    /\ PostAddedEntry

====
